---- MODULE Spec2Model ----
(***************************************************************************)
(* Verification model of db2snow (PGtoSnowflake): the three source         *)
(* adapters (PostgreSQL, MySQL, SQL Server), their export loops, their     *)
(* connection handling and their type mappers.                             *)
(*                                                                         *)
(* Each subsystem has its own variables and its own specification; the     *)
(* variables of the other subsystems stay at their initial value.          *)
(***************************************************************************)
EXTENDS Integers, Sequences, FiniteSets, TLC

VARIABLES
    \* ---- exportTables (one call) ----
    engine,         \* which adapter's exportTables runs
    tables,         \* the input table list
    format,         \* 'parquet' | 'csv'
    hasProgress,    \* whether onProgress was supplied
    pc,             \* position of the call
    i,              \* the for-loop counter (1-based here, 0-based in the source)
    step,           \* position inside the table export in flight
    rowCount,       \* rowCount local of the export in flight
    err,            \* the error caught by the per-table catch block
    results,        \* the results array
    progressCalls,  \* the calls made to onProgress, in order
    started,        \* indices whose export work began, in order
    outcomes,       \* what each finished export produced, in order
    \* ---- connection handling (two adapter instances of one engine) ----
    connEngine,     \* the engine of the two adapter instances
    stored,         \* the module-level client / connection / pool (0: null)
    handles,        \* every driver connection created so far
    connectedBy,    \* per instance: its own connect/disconnect calls left it connected
    lastOp,         \* the adapter call that finished last
    \* ---- mapColumnToSnowflake (one call) ----
    mapEngine,      \* which adapter's mapper runs
    srcColumn,      \* the SourceColumn passed in
    sfColumn,       \* the SnowflakeColumn returned
    mapPc,          \* position of the call
    \* ---- a stored password (one write, one read) ----
    cryptPc,        \* position: start, stored, read
    pwPlain,        \* the password that was encrypted
    pwKey,          \* the key it was encrypted with
    storedPassword, \* the value of the file's password field
    fileChanged,    \* the file was changed outside the program
    reader,         \* which reader reads it: mapping | connection
    readKey,        \* the key the key file held at the read
    readResult,     \* what the reader returned or threw
    \* the map operation (runMap) and the files it shares with other commands
    rmPc,           \* where the current run of runMap is
    runNo,          \* how many runs were started; the clock of createdAt
    keyFile,        \* the key readEncryptionKey returns
    mappingFiles,   \* mapping name -> content of <name>.mapping.json
    connectionFiles,\* connection name -> content of the saved connection file
    written,        \* every mapping object saveMappingFile has written, in order
    lastBuilt,      \* the SourceConnectionConfig built last, and by what
    rmEngine,       \* runMap: engine
    rmConfig,       \* runMap: config
    rmSchemas,      \* runMap: selectedSchemas
    rmPending,      \* runMap: what the current loop has still to visit
    rmSelected,     \* runMap: the keys of tablesBySchema
    rmName,         \* runMap: mappingName
    rmPayload,      \* runMap: encryptedPassword
    rmRun,          \* what the current or last run has done
    rmOutcome,      \* how the last run ended
    \* getForeignKeys
    fkPc,           \* "idle", "query", "returned" or "thrown"
    fkEngine,       \* the adapter
    fkRows,         \* the rows the foreign-key query returned
    fkResult,       \* what getForeignKeys returned
    \* the generate-ddl operation (runGenerateDDL)
    ddlPc,          \* where runGenerateDDL is
    ddlOptions,     \* options.mapping, options.output, options.preview
    ddlReadable,    \* the mapping files that can be loaded
    ddlMapping,     \* runGenerateDDL: the name of the loaded mapping
    ddlResult,      \* runGenerateDDL: result
    ddlFiles,       \* output path -> content
    ddlOutcome,     \* how runGenerateDDL ended
    \* introspectSchema and the introspectTable calls it issues
    introPc,        \* "idle", "awaiting", "returned" or "thrown"
    introEngine,    \* the adapter
    introTables,    \* tableNames
    fetchStatus,    \* table position -> fetch -> pending / resolved / rejected
    fetchValues,    \* table position -> the array Promise.all fills
    tablesDone,     \* the array the outer Promise.all fills
    seqStatus,      \* the getSequences promise
    introResult,    \* what introspectSchema returned
    \* the REPL
    replInput,      \* lines typed at the terminal and not yet emitted
    handlers,       \* one entry per 'line' listener call that reached a command
    replClient,     \* client of the PostgreSQL service
    uses,           \* <<handler, connection it queried on>>
    prompts,        \* calls of rl.prompt()
    exited          \* process.exit was called

exportVars == <<engine, tables, format, hasProgress, pc, i, step, rowCount, err,
                results, progressCalls, started, outcomes>>

connVars == <<connEngine, stored, handles, connectedBy, lastOp>>

mapVars == <<mapEngine, srcColumn, sfColumn, mapPc>>

cryptVars == <<cryptPc, pwPlain, pwKey, storedPassword, fileChanged, reader, readKey,
               readResult>>

mapCmdVars == <<rmPc, runNo, keyFile, mappingFiles, connectionFiles, written, lastBuilt,
                rmEngine, rmConfig, rmSchemas, rmPending, rmSelected, rmName, rmPayload,
                rmRun, rmOutcome>>

fkVars == <<fkPc, fkEngine, fkRows, fkResult>>

ddlVars == <<ddlPc, ddlOptions, ddlReadable, ddlMapping, ddlResult, ddlFiles, ddlOutcome>>

introVars == <<introPc, introEngine, introTables, fetchStatus, fetchValues, tablesDone, seqStatus, introResult>>

replVars == <<replInput, handlers, replClient, uses, prompts, exited>>

vars == <<exportVars, connVars, mapVars, cryptVars, mapCmdVars, fkVars, ddlVars, introVars, replVars>>

\* What each subsystem's actions leave alone.
notExport == <<connVars, mapVars, cryptVars, mapCmdVars, fkVars, ddlVars, introVars, replVars>>
notConn == <<exportVars, mapVars, cryptVars, mapCmdVars, fkVars, ddlVars, introVars, replVars>>
notMap == <<exportVars, connVars, cryptVars, mapCmdVars, fkVars, ddlVars, introVars, replVars>>
notCrypt == <<exportVars, connVars, mapVars, mapCmdVars, fkVars, ddlVars, introVars, replVars>>
notMapCmd == <<exportVars, connVars, mapVars, cryptVars, fkVars, ddlVars, introVars, replVars>>
notFk == <<exportVars, connVars, mapVars, cryptVars, mapCmdVars, ddlVars, introVars, replVars>>
notDdl == <<exportVars, connVars, mapVars, cryptVars, mapCmdVars, fkVars, introVars, replVars>>
notIntro == <<exportVars, connVars, mapVars, cryptVars, mapCmdVars, fkVars, ddlVars, replVars>>
notRepl == <<exportVars, connVars, mapVars, cryptVars, mapCmdVars, fkVars, ddlVars, introVars>>

NULL == "null"

Engines == {"postgresql", "mysql", "mssql"}

----------------------------------------------------------------------------
(* Bounds and input universes                                              *)

MaxTables == 3
MaxHandles == 3

SchemaNames == {"public"}
TableNames == {"a", "b"}
TableRefs == [schemaName : SchemaNames, tableName : TableNames]
Formats == {"parquet", "csv"}
RowCounts == {0, 3}
ErrMsgs == {"E1", "E2"}
FileSizeOf(rows) == rows * 16

RECURSIVE SeqsUpTo(_, _)
SeqsUpTo(S, n) ==
    IF n = 0 THEN {<<>>}
    ELSE LET shorter == SeqsUpTo(S, n - 1)
         IN  shorter \cup {Append(s, x) : s \in {t \in shorter : Len(t) = n - 1}, x \in S}

----------------------------------------------------------------------------
(* exportTables                                                            *)

\* The awaited calls of one table export, in order, per engine and format.
ExportSteps(e, f) ==
    CASE e = "postgresql" ->
            <<"ensureDir", "duckdb", "install", "load", "attach", "copy", "count", "detach", "stat">>
      [] e = "mysql" ->
            <<"duckdb", "install", "load", "attach", "copy", "count", "detach", "stat">>
      [] e = "mssql" /\ f = "csv" ->
            <<"query", "write", "stat">>
      [] OTHER ->
            <<"query", "duckdb", "createTable", "copy", "stat">>

\* The step at which the export learns the table's row count.
CountStep(e) == IF e = "mssql" THEN "query" ELSE "count"

DisplayName(t) == t.schemaName \o "." \o t.tableName

SuccessResult(t, rows) ==
    [schemaName |-> t.schemaName, tableName |-> t.tableName, status |-> "success",
     rowCount |-> rows, fileSize |-> FileSizeOf(rows), error |-> NULL]

ErrorResult(t, msg) ==
    [schemaName |-> t.schemaName, tableName |-> t.tableName, status |-> "error",
     rowCount |-> 0, fileSize |-> 0, error |-> msg]

\* Where the call goes first: MySQL and SQL Server create the output
\* directory before the loop, PostgreSQL enters the loop at once.
FirstPc(e) == IF e = "postgresql" THEN "loop" ELSE "ensureDir"

ExportInit ==
    /\ engine \in Engines
    /\ tables \in SeqsUpTo(TableRefs, MaxTables)
    /\ format \in Formats
    /\ hasProgress \in BOOLEAN
    /\ pc = FirstPc(engine)
    /\ i = 1
    /\ step = 0
    /\ rowCount = 0
    /\ err = NULL
    /\ results = <<>>
    /\ progressCalls = <<>>
    /\ started = <<>>
    /\ outcomes = <<>>

\* await ensureDir(outputDir) before the loop (MySQL, SQL Server): outside
\* every try block, so a failure rejects the whole call.
EnsureDirOk ==
    /\ UNCHANGED notExport
    /\ pc = "ensureDir"
    /\ pc' = IF engine = "mssql" THEN "connectPool" ELSE "loop"
    /\ UNCHANGED <<engine, tables, format, hasProgress, i, step, rowCount, err,
                   results, progressCalls, started, outcomes>>

EnsureDirFail ==
    /\ UNCHANGED notExport
    /\ pc = "ensureDir"
    /\ pc' = "thrown"
    /\ UNCHANGED <<engine, tables, format, hasProgress, i, step, rowCount, err,
                   results, progressCalls, started, outcomes>>

\* SQL Server: the export pool opens.
ConnectPoolOk ==
    /\ UNCHANGED notExport
    /\ pc = "connectPool"
    /\ pc' = "loop"
    /\ UNCHANGED <<engine, tables, format, hasProgress, i, step, rowCount, err,
                   results, progressCalls, started, outcomes>>

\* SQL Server: the export pool cannot be opened: an error result for every
\* table, and the call returns.
ConnectPoolFail ==
    /\ UNCHANGED notExport
    /\ pc = "connectPool"
    /\ \E msg \in ErrMsgs :
          results' = [k \in 1..Len(tables) |-> ErrorResult(tables[k], msg)]
    /\ pc' = "done"
    /\ UNCHANGED <<engine, tables, format, hasProgress, i, step, rowCount, err,
                   progressCalls, started, outcomes>>

\* `await` on the per-table export: once the export of tables[i] has begun
\* the loop is suspended inside it.
PcAfterBeginNoAwait == "loop"
PcAfterBegin == "exporting"

\* After a caught per-table failure the loop goes on with the next table.
PcAfterCatchAbort == "done"
PcAfterCatch == "loop"

\* The index handed to onProgress: the zero-based loop counter.
ProgressIndexOneBased(k) == k
ProgressIndex(k) == k - 1

\* Top of the loop body: onProgress (when supplied), then the export of
\* tables[i] begins.
BeginTable ==
    /\ UNCHANGED notExport
    /\ pc = "loop"
    /\ i <= Len(tables)
    /\ progressCalls' =
          IF hasProgress
          THEN Append(progressCalls,
                      [name |-> DisplayName(tables[i]), index |-> ProgressIndex(i),
                       total |-> Len(tables), begun |-> Len(started)])
          ELSE progressCalls
    /\ started' = Append(started, i)
    /\ step' = 1
    /\ rowCount' = 0
    /\ pc' = PcAfterBegin
    /\ UNCHANGED <<engine, tables, format, hasProgress, i, err, results, outcomes>>

\* One awaited call of the export in flight resolves.
StepOk ==
    /\ UNCHANGED notExport
    /\ pc = "exporting"
    /\ LET steps == ExportSteps(engine, format)
           t == tables[i]
       IN  /\ \E rows \in RowCounts :
                 rowCount' = IF steps[step] = CountStep(engine) THEN rows ELSE rowCount
           /\ IF step < Len(steps)
              THEN /\ step' = step + 1
                   /\ UNCHANGED <<pc, i, results, outcomes>>
              ELSE /\ step' = 0
                   /\ results' = Append(results, SuccessResult(t, rowCount'))
                   /\ outcomes' = Append(outcomes, [ok |-> TRUE, rows |-> rowCount', msg |-> NULL])
                   /\ i' = i + 1
                   /\ pc' = "loop"
    /\ UNCHANGED <<engine, tables, format, hasProgress, err, progressCalls, started>>

\* One awaited call of the export in flight rejects: control enters the
\* per-table catch block.
StepFail ==
    /\ UNCHANGED notExport
    /\ pc = "exporting"
    /\ \E msg \in ErrMsgs : err' = msg
    /\ pc' = "catch"
    /\ UNCHANGED <<engine, tables, format, hasProgress, i, step, rowCount,
                   results, progressCalls, started, outcomes>>

\* The catch block: log, push the error result, go on.
Catch ==
    /\ UNCHANGED notExport
    /\ pc = "catch"
    /\ results' = Append(results, ErrorResult(tables[i], err))
    /\ outcomes' = Append(outcomes, [ok |-> FALSE, rows |-> 0, msg |-> err])
    /\ err' = NULL
    /\ step' = 0
    /\ i' = i + 1
    /\ pc' = PcAfterCatch
    /\ UNCHANGED <<engine, tables, format, hasProgress, rowCount, progressCalls, started>>

\* The loop is over: PostgreSQL and MySQL return results, SQL Server first
\* closes its export pool.
LoopExit ==
    /\ UNCHANGED notExport
    /\ pc = "loop"
    /\ i > Len(tables)
    /\ pc' = IF engine = "mssql" THEN "closePool" ELSE "done"
    /\ UNCHANGED <<engine, tables, format, hasProgress, i, step, rowCount, err,
                   results, progressCalls, started, outcomes>>

\* SQL Server: await exportPool.close() inside try/catch: whether it
\* resolves or rejects, the call returns results.
ClosePool ==
    /\ UNCHANGED notExport
    /\ pc = "closePool"
    /\ \E closed \in BOOLEAN : pc' = "done"
    /\ UNCHANGED <<engine, tables, format, hasProgress, i, step, rowCount, err,
                   results, progressCalls, started, outcomes>>

ExportNext ==
    \/ EnsureDirOk
    \/ EnsureDirFail
    \/ ConnectPoolOk
    \/ ConnectPoolFail
    \/ BeginTable
    \/ StepOk
    \/ StepFail
    \/ Catch
    \/ LoopExit
    \/ ClosePool

ExportIdle ==
    /\ engine = NULL /\ tables = <<>> /\ format = NULL /\ hasProgress = FALSE
    /\ pc = "idle" /\ i = 0 /\ step = 0 /\ rowCount = 0 /\ err = NULL
    /\ results = <<>> /\ progressCalls = <<>> /\ started = <<>> /\ outcomes = <<>>

----------------------------------------------------------------------------
(* Connection handling: connect, disconnect, testConnection, getTables     *)
(*                                                                         *)
(* The stored connection is a module-level variable of each engine's       *)
(* module (`let client`, `let connection`, `let pool`), so every adapter   *)
(* instance of an engine reads and writes the same one.                    *)

Instances == {"A", "B"}

\* What the drivers reject with: Error objects.
DriverErrors == {[isError |-> TRUE, message |-> "ECONNREFUSED"],
                 [isError |-> TRUE, message |-> "EAUTH"]}

\* No error / `undefined` as a cause.
NoError == [isError |-> FALSE, message |-> NULL]

\* err instanceof Error ? err : undefined
CauseDropped(e) == NoError
CauseOf(e) == IF e.isError THEN e ELSE NoError

Handle(st, kind) == [state |-> st, kind |-> kind, closes |-> 0]

Op(name, inst, outcome, errKind, cause, raised, ret, env, ends) ==
    [op |-> name, inst |-> inst, outcome |-> outcome, errKind |-> errKind,
     cause |-> cause, raised |-> raised, ret |-> ret, env |-> env, ends |-> ends,
     storedBefore |-> stored,
     stateBefore |-> IF stored = 0 THEN NULL ELSE handles[stored].state,
     prev |-> lastOp.op]

NoEnv == [opened |-> FALSE, queried |-> FALSE, closed |-> FALSE]

NoOp ==
    [op |-> "none", inst |-> NULL, outcome |-> NULL, errKind |-> NULL,
     cause |-> NoError, raised |-> NoError, ret |-> FALSE, env |-> NoEnv, ends |-> 0,
     storedBefore |-> 0, stateBefore |-> NULL, prev |-> "none"]

ConnIdle ==
    /\ connEngine = NULL
    /\ stored = 0
    /\ handles = <<>>
    /\ connectedBy = [x \in Instances |-> FALSE]
    /\ lastOp = NoOp

ConnInit ==
    /\ connEngine \in Engines
    /\ stored = 0
    /\ handles = <<>>
    /\ connectedBy = [x \in Instances |-> FALSE]
    /\ lastOp = NoOp

\* PostgreSQL assigns `client = new Client(...)` before `await
\* client.connect()`; MySQL and SQL Server assign only the connection that
\* createConnection / createPool resolved with.
StoredAfterFailedConnect(e, old, fresh) == IF e = "postgresql" THEN fresh ELSE old

\* connect(config) on instance x resolves.
ConnectOk(x) ==
    /\ UNCHANGED notConn
    /\ Len(handles) < MaxHandles
    /\ handles' = Append(handles, Handle("live", "main"))
    /\ stored' = Len(handles) + 1
    /\ connectedBy' = [connectedBy EXCEPT ![x] = TRUE]
    /\ lastOp' = Op("connect", x, "ok", NULL, NoError, NoError, FALSE, NoEnv, 0)
    /\ UNCHANGED connEngine

\* connect(config) on instance x: the driver rejects with e; the catch block
\* throws a ConnectionError wrapping it.
ConnectFail(x) ==
    /\ UNCHANGED notConn
    /\ Len(handles) < MaxHandles
    /\ \E e \in DriverErrors :
          lastOp' = Op("connect", x, "throw", "ConnectionError", CauseOf(e), e, FALSE, NoEnv, 0)
    /\ handles' = IF connEngine = "postgresql"
                  THEN Append(handles, Handle("dead", "main"))
                  ELSE handles
    /\ stored' = StoredAfterFailedConnect(connEngine, stored, Len(handles) + 1)
    /\ connectedBy' = [connectedBy EXCEPT ![x] = IF connEngine = "postgresql" THEN FALSE ELSE @]
    /\ UNCHANGED connEngine

\* `client = null` / `connection = null` / `pool = null` after the close.
StoredAfterDisconnectKept(old) == old
StoredAfterDisconnect(old) == 0

\* disconnect() on instance x with nothing stored: nothing happens.
DisconnectNoop(x) ==
    /\ UNCHANGED notConn
    /\ stored = 0
    /\ lastOp' = Op("disconnect", x, "ok", NULL, NoError, NoError, FALSE, NoEnv, 0)
    /\ connectedBy' = [connectedBy EXCEPT ![x] = FALSE]
    /\ UNCHANGED <<connEngine, stored, handles>>

\* disconnect() on instance x: the stored connection is closed and dropped.
DisconnectOk(x) ==
    /\ UNCHANGED notConn
    /\ stored # 0
    /\ handles' = [handles EXCEPT ![stored] =
                      [@ EXCEPT !.state = IF @ = "live" THEN "closed" ELSE @,
                                !.closes = @ + 1]]
    /\ stored' = StoredAfterDisconnect(stored)
    /\ connectedBy' = [connectedBy EXCEPT ![x] = FALSE]
    /\ lastOp' = Op("disconnect", x, "ok", NULL, NoError, NoError, FALSE, NoEnv, 1)
    /\ UNCHANGED connEngine

\* disconnect() on instance x: end() / close() rejects, the rejection leaves
\* disconnect and the connection stays stored.
DisconnectFail(x) ==
    /\ UNCHANGED notConn
    /\ stored # 0
    /\ \E e \in DriverErrors :
          lastOp' = Op("disconnect", x, "throw", "DriverError", NoError, e, FALSE, NoEnv, 1)
    /\ UNCHANGED <<connEngine, stored, handles, connectedBy>>

\* testConnection returns true only when every awaited call resolved.
TestReturnOpenedOnly(opened, queried, closed) == opened
TestReturn(opened, queried, closed) == opened /\ queried /\ closed

\* testConnection(config) on instance x: an independent connection is
\* opened, probed with SELECT 1 (MySQL, SQL Server) and closed; the first
\* rejection goes to the catch block, which returns false.
TestConnection(x) ==
    /\ UNCHANGED notConn
    /\ Len(handles) < MaxHandles
    /\ \E opened, queried, closed \in BOOLEAN :
          LET probes == connEngine # "postgresql"
              q == IF probes THEN opened /\ queried ELSE opened
              c == q /\ closed
              env == [opened |-> opened, queried |-> q, closed |-> c]
          IN  /\ handles' =
                    IF ~opened
                    THEN IF connEngine = "postgresql"
                         THEN Append(handles, Handle("dead", "test"))
                         ELSE handles
                    ELSE IF c
                         THEN Append(handles, [Handle("closed", "test") EXCEPT !.closes = 1])
                         ELSE Append(handles, Handle("live", "test"))
              /\ lastOp' = Op("test", x, "ok", NULL, NoError, NoError, TestReturn(opened, q, c), env, 0)
    /\ UNCHANGED <<connEngine, stored, connectedBy>>

\* getTables(schemaName) on instance x: getClient / getConnection / getPool
\* throws 'Not connected' when nothing is stored, else the query runs on
\* the stored connection.
GetTables(x) ==
    /\ UNCHANGED notConn
    /\ \/ /\ stored = 0
          /\ lastOp' = Op("getTables", x, "throw", "ConnectionError", NoError, NoError, FALSE, NoEnv, 0)
       \/ /\ stored # 0
          /\ handles[stored].state = "live"
          /\ lastOp' = Op("getTables", x, "ok", NULL, NoError, NoError, FALSE, NoEnv, 0)
       \/ /\ stored # 0
          /\ \E e \in DriverErrors :
                lastOp' = Op("getTables", x, "throw", "DriverError", NoError, e, FALSE, NoEnv, 0)
    /\ UNCHANGED <<connEngine, stored, handles, connectedBy>>

ConnNext ==
    \/ \E x \in Instances : ConnectOk(x)
    \/ \E x \in Instances : ConnectFail(x)
    \/ \E x \in Instances : DisconnectNoop(x)
    \/ \E x \in Instances : DisconnectOk(x)
    \/ \E x \in Instances : DisconnectFail(x)
    \/ \E x \in Instances : TestConnection(x)
    \/ \E x \in Instances : GetTables(x)

----------------------------------------------------------------------------
(* Strings                                                                 *)
(*                                                                         *)
(* A string the mappers inspect (dataType, udtName, columnDefault,         *)
(* identityGeneration) is a sequence of one-character strings; what they   *)
(* render (type, comment, defaultValue) is a string.                       *)

RECURSIVE Str(_)
Str(s) == IF s = <<>> THEN "" ELSE Head(s) \o Str(Tail(s))

UpperLetters == <<"A", "B", "C", "D", "E", "F", "G", "H", "I", "J", "K", "L", "M",
                  "N", "O", "P", "Q", "R", "S", "T", "U", "V", "W", "X", "Y", "Z">>
LowerLetters == <<"a", "b", "c", "d", "e", "f", "g", "h", "i", "j", "k", "l", "m",
                  "n", "o", "p", "q", "r", "s", "t", "u", "v", "w", "x", "y", "z">>
Digits == <<"0", "1", "2", "3", "4", "5", "6", "7", "8", "9">>

Range(f) == {f[k] : k \in DOMAIN f}
PosIn(c, f) == CHOOSE k \in DOMAIN f : f[k] = c

LowerChar(c) == IF c \in Range(UpperLetters) THEN LowerLetters[PosIn(c, UpperLetters)] ELSE c
UpperChar(c) == IF c \in Range(LowerLetters) THEN UpperLetters[PosIn(c, LowerLetters)] ELSE c

\* String.prototype.toLowerCase / toUpperCase
ToLowerCase(s) == [k \in 1..Len(s) |-> LowerChar(s[k])]
ToUpperCase(s) == [k \in 1..Len(s) |-> UpperChar(s[k])]

\* String.prototype.startsWith / endsWith
StartsWith(s, p) == Len(s) >= Len(p) /\ SubSeq(s, 1, Len(p)) = p
EndsWith(s, p) == Len(s) >= Len(p) /\ SubSeq(s, Len(s) - Len(p) + 1, Len(s)) = p

\* String.prototype.indexOf, 1-based; 0 when p does not occur at or after from.
IndexOf(s, p, from) ==
    LET hits == {k \in from..(Len(s) - Len(p) + 1) : SubSeq(s, k, k + Len(p) - 1) = p}
    IN  IF hits = {} THEN 0 ELSE CHOOSE k \in hits : \A h \in hits : k <= h

Includes(s, p) == IndexOf(s, p, 1) # 0

\* String.prototype.trim (spaces)
RECURSIVE TrimStart(_)
TrimStart(s) == IF s # <<>> /\ Head(s) = " " THEN TrimStart(Tail(s)) ELSE s
RECURSIVE TrimEnd(_)
TrimEnd(s) == IF s # <<>> /\ s[Len(s)] = " " THEN TrimEnd(SubSeq(s, 1, Len(s) - 1)) ELSE s
Trim(s) == TrimEnd(TrimStart(s))

\* String.prototype.split(sep), sep non-empty
RECURSIVE Split(_, _)
Split(s, sep) ==
    LET k == IndexOf(s, sep, 1)
    IN  IF k = 0 THEN <<s>>
        ELSE <<SubSeq(s, 1, k - 1)>> \o Split(SubSeq(s, k + Len(sep), Len(s)), sep)

\* Number to string, as a template literal renders an integer.
RECURSIVE NatStr(_)
NatStr(n) == IF n < 10 THEN Digits[n + 1] ELSE NatStr(n \div 10) \o Digits[(n % 10) + 1]
NumStr(n) == IF n < 0 THEN "-" \o NatStr(0 - n) ELSE NatStr(n)

\* Nullable values: <<>> is null / undefined, <<v>> is the value v.
None == <<>>
Some(v) == <<v>>
IsSome(o) == o # <<>>
Val(o) == o[1]

\* parseInt(s, 10): leading spaces, an optional sign, then the longest run
\* of digits; None stands for NaN (there is no digit).
RECURSIVE DigitsValue(_, _)
DigitsValue(s, acc) ==
    IF s = <<>> \/ Head(s) \notin Range(Digits) THEN acc
    ELSE DigitsValue(Tail(s), acc * 10 + (PosIn(Head(s), Digits) - 1))
ParseInt(s) ==
    LET t == TrimStart(s)
        signed == t # <<>> /\ Head(t) \in {"-", "+"}
        body == IF signed THEN Tail(t) ELSE t
    IN  IF body = <<>> \/ Head(body) \notin Range(Digits) THEN None
        ELSE IF signed /\ Head(t) = "-" THEN Some(0 - DigitsValue(body, 0))
        ELSE Some(DigitsValue(body, 0))

\* A nullable string / number used as a condition: null, '', 0 and NaN are
\* falsy.
TruthyStr(o) == IsSome(o) /\ Val(o) # <<>>
TruthyNum(o) == IsSome(o) /\ Val(o) # 0

----------------------------------------------------------------------------
(* Type mappers                                                            *)

\* obj[key] on an object literal: the own property, else the member
\* inherited from Object.prototype (a function, truthy), else undefined.
ObjectPrototypeKeys ==
    {"constructor", "toString", "toLocaleString", "valueOf", "hasOwnProperty",
     "isPrototypeOf", "propertyIsEnumerable", "__proto__", "__defineGetter__",
     "__defineSetter__", "__lookupGetter__", "__lookupSetter__"}
InheritedMember == "[Object.prototype member]"

Lookup(map, key) ==
    IF key \in DOMAIN map THEN Some(map[key])
    ELSE IF key \in ObjectPrototypeKeys THEN Some(InheritedMember)
    ELSE None

TypeResult(t, c) == [snowflakeType |-> t, comment |-> c]

SnowflakeColumn(col, t, d, ident, seed, incr, c) ==
    [name |-> col.columnName, type |-> t, nullable |-> col.isNullable,
     defaultValue |-> d, isIdentity |-> ident, identitySeed |-> seed,
     identityIncrement |-> incr, comment |-> c]

\* ---- PostgreSQL ----

PgSimpleTypeMap ==
    ("int2" :> "SMALLINT") @@ ("int4" :> "INTEGER") @@ ("int8" :> "BIGINT") @@
    ("smallint" :> "SMALLINT") @@ ("integer" :> "INTEGER") @@ ("bigint" :> "BIGINT") @@
    ("float4" :> "FLOAT") @@ ("float8" :> "DOUBLE") @@ ("real" :> "FLOAT") @@
    ("double precision" :> "DOUBLE") @@ ("money" :> "NUMBER(19,4)") @@
    ("bool" :> "BOOLEAN") @@ ("boolean" :> "BOOLEAN") @@
    ("text" :> "VARCHAR") @@ ("name" :> "VARCHAR") @@ ("char" :> "CHAR") @@ ("bpchar" :> "CHAR") @@
    ("date" :> "DATE") @@ ("time" :> "TIME") @@ ("timetz" :> "TIME") @@
    ("timestamp" :> "TIMESTAMP_NTZ") @@ ("timestamptz" :> "TIMESTAMP_TZ") @@
    ("json" :> "VARIANT") @@ ("jsonb" :> "VARIANT") @@
    ("bytea" :> "BINARY") @@
    ("uuid" :> "VARCHAR(36)") @@
    ("inet" :> "VARCHAR(45)") @@ ("cidr" :> "VARCHAR(49)") @@
    ("macaddr" :> "VARCHAR(17)") @@ ("macaddr8" :> "VARCHAR(23)") @@
    ("point" :> "VARCHAR") @@ ("line" :> "VARCHAR") @@ ("lseg" :> "VARCHAR") @@
    ("box" :> "VARCHAR") @@ ("path" :> "VARCHAR") @@ ("polygon" :> "VARCHAR") @@
    ("circle" :> "VARCHAR") @@
    ("xml" :> "VARCHAR") @@ ("interval" :> "VARCHAR") @@ ("tsvector" :> "VARCHAR") @@
    ("tsquery" :> "VARCHAR") @@ ("oid" :> "INTEGER") @@ ("regclass" :> "VARCHAR") @@
    ("regtype" :> "VARCHAR")

PgMapType(col) ==
    LET udtName == Str(col.udtName)
        dataType == Str(col.dataType)
        baseType == Str(Tail(col.udtName))
        byUdt == Lookup(PgSimpleTypeMap, udtName)
        mapped == IF IsSome(byUdt) THEN byUdt ELSE Lookup(PgSimpleTypeMap, dataType)
    IN  IF StartsWith(col.udtName, <<"_">>)
        THEN TypeResult("ARRAY",
                 Some("PostgreSQL array type: " \o baseType \o "[]" \o
                      (IF IsSome(Lookup(PgSimpleTypeMap, baseType)) THEN ""
                       ELSE " (base type " \o baseType \o " not directly mapped)")))
        ELSE IF udtName = "numeric" \/ dataType = "numeric"
        THEN IF IsSome(col.numericPrecision) /\ IsSome(col.numericScale)
             THEN TypeResult("NUMBER(" \o NumStr(Val(col.numericPrecision)) \o "," \o
                             NumStr(Val(col.numericScale)) \o ")", None)
             ELSE IF IsSome(col.numericPrecision)
             THEN TypeResult("NUMBER(" \o NumStr(Val(col.numericPrecision)) \o ")", None)
             ELSE TypeResult("NUMBER(38,0)", None)
        ELSE IF udtName = "varchar" \/ dataType = "character varying"
        THEN IF TruthyNum(col.characterMaximumLength)
             THEN TypeResult("VARCHAR(" \o NumStr(Val(col.characterMaximumLength)) \o ")", None)
             ELSE TypeResult("VARCHAR", None)
        ELSE IF udtName = "bpchar" \/ udtName = "char" \/ dataType = "character"
        THEN IF TruthyNum(col.characterMaximumLength)
             THEN TypeResult("CHAR(" \o NumStr(Val(col.characterMaximumLength)) \o ")", None)
             ELSE TypeResult("CHAR(1)", None)
        ELSE IF IsSome(mapped)
        THEN TypeResult(Val(mapped),
                 IF udtName = "interval"
                 THEN Some("PostgreSQL INTERVAL has no direct Snowflake equivalent")
                 ELSE None)
        ELSE IF dataType = "USER-DEFINED"
        THEN TypeResult("VARCHAR", Some("PostgreSQL user-defined type: " \o udtName))
        ELSE TypeResult("VARCHAR",
                 Some("Unmapped PostgreSQL type: " \o udtName \o " (" \o dataType \o ")"))

\* /nextval\(/i.test(s)
HasNextval(s) == Includes(ToLowerCase(s), <<"n","e","x","t","v","a","l","(">>)

PgIsSerialColumn(col) ==
    \/ col.isIdentity
    \/ TruthyStr(col.columnDefault) /\ HasNextval(Val(col.columnDefault))

PgGetSerialBaseType(udtName) ==
    CASE udtName = "int2" -> "SMALLINT"
      [] udtName = "int4" -> "INTEGER"
      [] udtName = "int8" -> "BIGINT"
      [] OTHER -> "INTEGER"

\* s.replace(/::[a-zA-Z_ ]+(\[\])?/g, '')
CastChars == Range(UpperLetters) \cup Range(LowerLetters) \cup {"_", " "}
RECURSIVE CastRunEnd(_, _)
CastRunEnd(s, k) == IF k <= Len(s) /\ s[k] \in CastChars THEN CastRunEnd(s, k + 1) ELSE k
RECURSIVE StripCasts(_)
StripCasts(s) ==
    IF s = <<>> THEN <<>>
    ELSE IF StartsWith(s, <<":", ":">>) /\ Len(s) >= 3 /\ s[3] \in CastChars
    THEN LET e == CastRunEnd(s, 3)
             rest == SubSeq(s, e, Len(s))
         IN  IF StartsWith(rest, <<"[", "]">>)
             THEN StripCasts(SubSeq(rest, 3, Len(rest)))
             ELSE StripCasts(rest)
    ELSE <<Head(s)>> \o StripCasts(Tail(s))

PgMapDefault(pgDefault, udtName) ==
    LET d == Str(pgDefault)
        stripped == Trim(StripCasts(pgDefault))
    IN  IF HasNextval(pgDefault) THEN None
        ELSE IF d = "true" \/ d = "false" THEN Some(Str(ToUpperCase(pgDefault)))
        ELSE IF d = "now()" \/ d = "CURRENT_TIMESTAMP" THEN Some("CURRENT_TIMESTAMP()")
        ELSE IF d = "CURRENT_DATE" THEN Some("CURRENT_DATE()")
        ELSE IF stripped # <<>> THEN Some(Str(stripped))
        ELSE None

\* A serial/identity column's default is not mapped.
PgDefaultMappedAlways(col, isSerial) == TruthyStr(col.columnDefault)
PgDefaultMapped(col, isSerial) == TruthyStr(col.columnDefault) /\ ~isSerial

PgMapColumn(col) ==
    LET isSerial == PgIsSerialColumn(col)
        result == PgMapType(col)
        snowflakeType == IF isSerial THEN PgGetSerialBaseType(Str(col.udtName))
                         ELSE result.snowflakeType
        comment == IF isSerial
                   THEN IF TruthyStr(col.columnDefault)
                        THEN Some("Auto-increment (was: " \o
                                  Str(Trim(Split(Val(col.columnDefault), <<":", ":">>)[1])) \o ")")
                        ELSE None
                   ELSE result.comment
        defaultValue == IF PgDefaultMapped(col, isSerial)
                        THEN PgMapDefault(Val(col.columnDefault), col.udtName)
                        ELSE None
    IN  SnowflakeColumn(col, snowflakeType, defaultValue, isSerial, 1, 1, comment)


\* ---- MySQL ----

MysqlSimpleTypeMap ==
    ("smallint" :> "SMALLINT") @@ ("mediumint" :> "INTEGER") @@ ("int" :> "INTEGER") @@
    ("integer" :> "INTEGER") @@ ("bigint" :> "BIGINT") @@
    ("float" :> "FLOAT") @@ ("double" :> "DOUBLE") @@ ("real" :> "DOUBLE") @@
    ("boolean" :> "BOOLEAN") @@ ("bool" :> "BOOLEAN") @@
    ("tinytext" :> "VARCHAR") @@ ("text" :> "VARCHAR") @@ ("mediumtext" :> "VARCHAR") @@
    ("longtext" :> "VARCHAR") @@
    ("date" :> "DATE") @@ ("time" :> "TIME") @@ ("year" :> "INTEGER") @@
    ("datetime" :> "TIMESTAMP_NTZ") @@ ("timestamp" :> "TIMESTAMP_TZ") @@
    ("json" :> "VARIANT") @@
    ("tinyblob" :> "BINARY") @@ ("blob" :> "BINARY") @@ ("mediumblob" :> "BINARY") @@
    ("longblob" :> "BINARY") @@ ("binary" :> "BINARY") @@ ("varbinary" :> "BINARY") @@
    ("geometry" :> "VARCHAR") @@ ("point" :> "VARCHAR") @@ ("linestring" :> "VARCHAR") @@
    ("polygon" :> "VARCHAR") @@ ("multipoint" :> "VARCHAR") @@
    ("multilinestring" :> "VARCHAR") @@ ("multipolygon" :> "VARCHAR") @@
    ("geometrycollection" :> "VARCHAR") @@
    ("bit" :> "BOOLEAN")

MysqlIsTinyint1(col) ==
    LET colType == Str(ToLowerCase(col.udtName))
    IN  \/ colType = "tinyint(1)"
        \/ /\ Str(col.dataType) = "tinyint"
           /\ col.numericPrecision = Some(3)
           /\ col.numericScale = Some(0)
           /\ col.characterMaximumLength = None

MysqlMapType(col) ==
    LET dataType == Str(ToLowerCase(col.dataType))
        colType == Str(ToLowerCase(col.udtName))
        mapped == Lookup(MysqlSimpleTypeMap, dataType)
    IN  IF dataType = "tinyint"
        THEN IF MysqlIsTinyint1(col)
             THEN TypeResult("BOOLEAN", None)
             ELSE TypeResult("SMALLINT", None)
        ELSE IF dataType = "enum"
        THEN TypeResult("VARCHAR", Some("MySQL ENUM type: " \o colType))
        ELSE IF dataType = "set"
        THEN TypeResult("VARCHAR", Some("MySQL SET type: " \o colType))
        ELSE IF dataType = "decimal" \/ dataType = "numeric"
        THEN IF IsSome(col.numericPrecision) /\ IsSome(col.numericScale)
             THEN TypeResult("NUMBER(" \o NumStr(Val(col.numericPrecision)) \o "," \o
                             NumStr(Val(col.numericScale)) \o ")", None)
             ELSE IF IsSome(col.numericPrecision)
             THEN TypeResult("NUMBER(" \o NumStr(Val(col.numericPrecision)) \o ")", None)
             ELSE TypeResult("NUMBER(10,0)", None)
        ELSE IF dataType = "varchar"
        THEN IF TruthyNum(col.characterMaximumLength)
             THEN TypeResult("VARCHAR(" \o NumStr(Val(col.characterMaximumLength)) \o ")", None)
             ELSE TypeResult("VARCHAR", None)
        ELSE IF dataType = "char"
        THEN IF TruthyNum(col.characterMaximumLength)
             THEN TypeResult("CHAR(" \o NumStr(Val(col.characterMaximumLength)) \o ")", None)
             ELSE TypeResult("CHAR(1)", None)
        ELSE IF IsSome(mapped)
        THEN TypeResult(Val(mapped), None)
        ELSE TypeResult("VARCHAR",
                 Some("Unmapped MySQL type: " \o colType \o " (" \o dataType \o ")"))

MysqlMapDefault(mysqlDefault, dataType) ==
    LET d == Str(mysqlDefault)
    IN  IF d = "CURRENT_TIMESTAMP" \/ d = "current_timestamp()" THEN Some("CURRENT_TIMESTAMP()")
        ELSE IF Str(dataType) = "tinyint" /\ d = "1" THEN Some("TRUE")
        ELSE IF Str(dataType) = "tinyint" /\ d = "0" THEN Some("FALSE")
        ELSE IF d = "NULL" \/ d = "null" THEN None
        ELSE Some(d)

MysqlMapColumn(col) ==
    LET isAutoIncrement == col.isIdentity
        result == MysqlMapType(col)
        defaultValue == IF TruthyStr(col.columnDefault) /\ ~isAutoIncrement
                        THEN MysqlMapDefault(Val(col.columnDefault), col.dataType)
                        ELSE None
    IN  SnowflakeColumn(col, result.snowflakeType, defaultValue, isAutoIncrement, 1, 1,
                        result.comment)

\* ---- SQL Server ----

MssqlSimpleTypeMap ==
    ("bit" :> "BOOLEAN") @@ ("tinyint" :> "SMALLINT") @@ ("smallint" :> "SMALLINT") @@
    ("int" :> "INTEGER") @@ ("bigint" :> "BIGINT") @@
    ("float" :> "FLOAT") @@ ("real" :> "FLOAT") @@
    ("money" :> "NUMBER(19,4)") @@ ("smallmoney" :> "NUMBER(10,4)") @@
    ("date" :> "DATE") @@ ("time" :> "TIME") @@ ("datetime" :> "TIMESTAMP_NTZ") @@
    ("datetime2" :> "TIMESTAMP_NTZ") @@ ("smalldatetime" :> "TIMESTAMP_NTZ") @@
    ("datetimeoffset" :> "TIMESTAMP_TZ") @@
    ("text" :> "VARCHAR") @@ ("ntext" :> "VARCHAR") @@
    ("image" :> "BINARY") @@
    ("uniqueidentifier" :> "VARCHAR(36)") @@ ("xml" :> "VARCHAR") @@
    ("sql_variant" :> "VARIANT") @@ ("hierarchyid" :> "VARCHAR") @@
    ("geography" :> "VARCHAR") @@ ("geometry" :> "VARCHAR") @@
    ("timestamp" :> "BINARY(8)") @@ ("rowversion" :> "BINARY(8)")

MssqlMapType(col) ==
    LET dataType == Str(ToLowerCase(col.dataType))
        mapped == Lookup(MssqlSimpleTypeMap, dataType)
    IN  IF dataType = "decimal" \/ dataType = "numeric"
        THEN IF IsSome(col.numericPrecision) /\ IsSome(col.numericScale)
             THEN TypeResult("NUMBER(" \o NumStr(Val(col.numericPrecision)) \o "," \o
                             NumStr(Val(col.numericScale)) \o ")", None)
             ELSE IF IsSome(col.numericPrecision)
             THEN TypeResult("NUMBER(" \o NumStr(Val(col.numericPrecision)) \o ")", None)
             ELSE TypeResult("NUMBER(18,0)", None)
        ELSE IF dataType = "varchar" \/ dataType = "nvarchar"
        THEN IF col.characterMaximumLength = Some(-1)
             THEN TypeResult("VARCHAR", None)
             ELSE IF TruthyNum(col.characterMaximumLength)
             THEN TypeResult("VARCHAR(" \o NumStr(Val(col.characterMaximumLength)) \o ")", None)
             ELSE TypeResult("VARCHAR", None)
        ELSE IF dataType = "char" \/ dataType = "nchar"
        THEN IF TruthyNum(col.characterMaximumLength)
             THEN TypeResult("CHAR(" \o NumStr(Val(col.characterMaximumLength)) \o ")", None)
             ELSE TypeResult("CHAR(1)", None)
        ELSE IF dataType = "binary" \/ dataType = "varbinary"
        THEN IF col.characterMaximumLength = Some(-1)
             THEN TypeResult("BINARY", None)
             ELSE IF TruthyNum(col.characterMaximumLength)
             THEN TypeResult("BINARY(" \o NumStr(Val(col.characterMaximumLength)) \o ")", None)
             ELSE TypeResult("BINARY", None)
        ELSE IF IsSome(mapped)
        THEN TypeResult(Val(mapped), None)
        ELSE TypeResult("VARCHAR", Some("Unmapped MSSQL type: " \o dataType))

\* while (cleaned.startsWith('(') && cleaned.endsWith(')')) cleaned = cleaned.slice(1, -1)
RECURSIVE StripOuterParens(_)
StripOuterParens(s) ==
    IF StartsWith(s, <<"(">>) /\ EndsWith(s, <<")">>)
    THEN StripOuterParens(SubSeq(s, 2, Len(s) - 1))
    ELSE s

MssqlMapDefault(mssqlDefault) ==
    LET cleaned == StripOuterParens(mssqlDefault)
        lower == Str(ToLowerCase(cleaned))
    IN  IF lower = "getdate()" \/ lower = "sysdatetime()" THEN Some("CURRENT_TIMESTAMP()")
        ELSE IF lower = "getutcdate()" \/ lower = "sysutcdatetime()" THEN Some("CURRENT_TIMESTAMP()")
        ELSE IF lower = "sysdatetimeoffset()" THEN Some("CURRENT_TIMESTAMP()")
        ELSE IF lower = "newid()" THEN None
        ELSE IF cleaned # <<>> THEN Some(Str(cleaned))
        ELSE None

\* parseInt(part, 10) || 1
ParseIntOr1(part) ==
    LET n == ParseInt(part) IN IF TruthyNum(n) THEN Val(n) ELSE 1

MssqlMapColumn(col) ==
    LET isIdentityCol == col.isIdentity
        result == MssqlMapType(col)
        parts == Split(Val(col.identityGeneration), <<",">>)
        parsed == isIdentityCol /\ TruthyStr(col.identityGeneration) /\ Len(parts) = 2
        identitySeed == IF parsed THEN ParseIntOr1(parts[1]) ELSE 1
        identityIncrement == IF parsed THEN ParseIntOr1(parts[2]) ELSE 1
        defaultValue == IF TruthyStr(col.columnDefault) /\ ~isIdentityCol
                        THEN MssqlMapDefault(Val(col.columnDefault))
                        ELSE None
    IN  SnowflakeColumn(col, result.snowflakeType, defaultValue, isIdentityCol,
                        identitySeed, identityIncrement, result.comment)

\* mapColumnToSnowflake of the engine's adapter
MapColumnFor(e, col) ==
    CASE e = "postgresql" -> PgMapColumn(col)
      [] e = "mysql" -> MysqlMapColumn(col)
      [] OTHER -> MssqlMapColumn(col)


----------------------------------------------------------------------------
(* mapColumnToSnowflake: one source column through the engine's mapper     *)

\* dataType / udtName pairs as the catalog queries report them, with
\* spellings no mapper has an entry for.
PgTypes ==
    {<<<<"i","n","t","e","g","e","r">>, <<"i","n","t","4">>>>, <<<<"b","i","g","i","n","t">>, <<"i","n","t","8">>>>, <<<<"b","o","o","l","e","a","n">>, <<"b","o","o","l">>>>,
     <<<<"n","u","m","e","r","i","c">>, <<"n","u","m","e","r","i","c">>>>, <<<<"c","h","a","r","a","c","t","e","r"," ","v","a","r","y","i","n","g">>, <<"v","a","r","c","h","a","r">>>>,
     <<<<"c","h","a","r","a","c","t","e","r">>, <<"b","p","c","h","a","r">>>>, <<<<"i","n","t","e","r","v","a","l">>, <<"i","n","t","e","r","v","a","l">>>>,
     <<<<"A","R","R","A","Y">>, <<"_","i","n","t","4">>>>, <<<<"A","R","R","A","Y">>, <<"_","m","o","o","d">>>>,
     <<<<"U","S","E","R","-","D","E","F","I","N","E","D">>, <<"m","o","o","d">>>>, <<<<"U","S","E","R","-","D","E","F","I","N","E","D">>, <<"c","o","n","s","t","r","u","c","t","o","r">>>>,
     <<<<"p","g","_","l","s","n">>, <<"p","g","_","l","s","n">>>>}
MysqlTypes ==
    {<<<<"i","n","t">>, <<"i","n","t","(","1","1",")">>>>, <<<<"t","i","n","y","i","n","t">>, <<"t","i","n","y","i","n","t","(","1",")">>>>, <<<<"t","i","n","y","i","n","t">>, <<"t","i","n","y","i","n","t","(","4",")">>>>,
     <<<<"d","e","c","i","m","a","l">>, <<"d","e","c","i","m","a","l","(","1","0",",","2",")">>>>, <<<<"v","a","r","c","h","a","r">>, <<"v","a","r","c","h","a","r","(","1","0","0",")">>>>,
     <<<<"c","h","a","r">>, <<"c","h","a","r","(","3",")">>>>, <<<<"e","n","u","m">>, <<"e","n","u","m","(","'","a","'",",","'","b","'",")">>>>,
     <<<<"t","i","m","e","s","t","a","m","p">>, <<"t","i","m","e","s","t","a","m","p">>>>, <<<<"D","A","T","E","T","I","M","E">>, <<"D","A","T","E","T","I","M","E">>>>,
     <<<<"v","e","c","t","o","r">>, <<"v","e","c","t","o","r","(","4",")">>>>, <<<<"c","o","n","s","t","r","u","c","t","o","r">>, <<"c","o","n","s","t","r","u","c","t","o","r">>>>}
MssqlTypes ==
    {<<<<"i","n","t">>, <<"i","n","t">>>>, <<<<"b","i","t">>, <<"b","i","t">>>>, <<<<"d","e","c","i","m","a","l">>, <<"d","e","c","i","m","a","l">>>>,
     <<<<"n","v","a","r","c","h","a","r">>, <<"n","v","a","r","c","h","a","r">>>>, <<<<"c","h","a","r">>, <<"c","h","a","r">>>>,
     <<<<"v","a","r","b","i","n","a","r","y">>, <<"v","a","r","b","i","n","a","r","y">>>>, <<<<"u","n","i","q","u","e","i","d","e","n","t","i","f","i","e","r">>, <<"u","n","i","q","u","e","i","d","e","n","t","i","f","i","e","r">>>>,
     <<<<"D","a","t","e","T","i","m","e","2">>, <<"D","a","t","e","T","i","m","e","2">>>>, <<<<"s","y","s","n","a","m","e">>, <<"s","y","s","n","a","m","e">>>>,
     <<<<"c","o","n","s","t","r","u","c","t","o","r">>, <<"c","o","n","s","t","r","u","c","t","o","r">>>>}
TypesOf(e) ==
    CASE e = "postgresql" -> PgTypes [] e = "mysql" -> MysqlTypes [] OTHER -> MssqlTypes

\* column_default expressions
PgDefaults ==
    {None, Some(<<>>), Some(<<"n","e","x","t","v","a","l","(","'","t","_","i","d","_","s","e","q","'",":",":","r","e","g","c","l","a","s","s",")">>), Some(<<"t","r","u","e">>),
     Some(<<"n","o","w","(",")">>), Some(<<"'","a","c","t","i","v","e","'",":",":","c","h","a","r","a","c","t","e","r"," ","v","a","r","y","i","n","g">>), Some(<<"'","{","}","'",":",":","t","e","x","t","[","]">>),
     Some(<<"0">>)}
MysqlDefaults ==
    {None, Some(<<>>), Some(<<"C","U","R","R","E","N","T","_","T","I","M","E","S","T","A","M","P">>), Some(<<"1">>), Some(<<"0">>),
     Some(<<"N","U","L","L">>), Some(<<"a","c","t","i","v","e">>)}
MssqlDefaults ==
    {None, Some(<<>>), Some(<<"(","(","0",")",")">>), Some(<<"(","g","e","t","d","a","t","e","(",")",")">>), Some(<<"(","n","e","w","i","d","(",")",")">>),
     Some(<<"(","'","a","c","t","i","v","e","'",")">>), Some(<<"(",")">>)}
DefaultsOf(e) ==
    CASE e = "postgresql" -> PgDefaults [] e = "mysql" -> MysqlDefaults
      [] OTHER -> MssqlDefaults

\* identity_generation (PostgreSQL), none (MySQL), "seed,increment" (SQL Server)
IdentityGenerationsOf(e) ==
    CASE e = "postgresql" -> {None, Some(<<"A","L","W","A","Y","S">>)}
      [] e = "mysql" -> {None}
      [] OTHER -> {None, Some(<<"1",",","1">>), Some(<<"1","0","0",",","5">>), Some(<<"-","5",",","-","1">>), Some(<<"0",",","0">>), Some(<<"0",",","1">>),
                   Some(<<"7">>)}

Lengths == {None, Some(-1), Some(0), Some(100)}
Precisions == {None, Some(3), Some(10)}
Scales == {None, Some(0), Some(2)}

SourceColumns(e) ==
    {[columnName |-> "c", isNullable |-> TRUE,
      dataType |-> t[1], udtName |-> t[2], columnDefault |-> d,
      characterMaximumLength |-> len, numericPrecision |-> p, numericScale |-> s,
      isIdentity |-> ident, identityGeneration |-> g] :
        t \in TypesOf(e), d \in DefaultsOf(e), len \in Lengths, p \in Precisions,
        s \in Scales, ident \in BOOLEAN, g \in IdentityGenerationsOf(e)}

NoColumn ==
    [columnName |-> NULL, isNullable |-> TRUE, dataType |-> <<>>, udtName |-> <<>>,
     columnDefault |-> None, characterMaximumLength |-> None, numericPrecision |-> None,
     numericScale |-> None, isIdentity |-> FALSE, identityGeneration |-> None]

NotMapped == SnowflakeColumn(NoColumn, NULL, None, FALSE, 1, 1, None)

MapIdle ==
    /\ mapEngine = NULL /\ srcColumn = NoColumn /\ sfColumn = NotMapped /\ mapPc = "idle"

MapInit ==
    /\ mapEngine \in Engines
    /\ srcColumn \in SourceColumns(mapEngine)
    /\ sfColumn = NotMapped
    /\ mapPc = "input"

MapColumn ==
    /\ mapPc = "input"
    /\ sfColumn' = MapColumnFor(mapEngine, srcColumn)
    /\ mapPc' = "mapped"
    /\ UNCHANGED <<mapEngine, srcColumn>>
    /\ UNCHANGED notMap

MapNext == MapColumn

----------------------------------------------------------------------------
(* Stored passwords: encrypt, decrypt, isEncryptedPayload and the two      *)
(* readers (decryptPassword of a mapping file, decryptConnectionPassword   *)
(* of a saved connection)                                                  *)
(*                                                                         *)
(* AES-256-GCM is modelled as an ideal authenticated cipher: a ciphertext  *)
(* is the term (key, iv, plaintext), its tag the term (key, iv,            *)
(* ciphertext), and decryption succeeds only if the tag is the one of the  *)
(* key, iv and ciphertext presented.                                       *)

Passwords == {"pw1", "pw2"}
Keys == {"k1", "k2"}
InvalidKey == "not-hex"
Ivs == {"iv1", "iv2"}

Missing == [key |-> NULL, iv |-> NULL, plain |-> NULL]
CipherText(key, iv, plaintext) == [key |-> key, iv |-> iv, plain |-> plaintext]
AuthTag(key, iv, ciphertext) == [key |-> key, iv |-> iv, plain |-> ciphertext.plain]

\* A value found in a password field: a JSON object, a string or null.
StoredValue(kind, encrypted, algorithm, iv, tag, ciphertext, text) ==
    [kind |-> kind, encrypted |-> encrypted, algorithm |-> algorithm, iv |-> iv,
     tag |-> tag, ciphertext |-> ciphertext, text |-> text]

PlainString(text) == StoredValue("string", FALSE, NULL, NULL, Missing, Missing, text)
JsonNull == StoredValue("null", FALSE, NULL, NULL, Missing, Missing, NULL)

\* encrypt(plaintext, keyHex) with the 16 random bytes iv
Encrypt(plaintext, key, iv) ==
    StoredValue("object", TRUE, "aes-256-gcm", iv,
                AuthTag(key, iv, CipherText(key, iv, plaintext)),
                CipherText(key, iv, plaintext), NULL)

IsEncryptedPayload(value) ==
    /\ value.kind = "object"
    /\ value.encrypted = TRUE
    /\ value.algorithm # NULL
    /\ value.iv # NULL
    /\ value.tag # Missing
    /\ value.ciphertext # Missing

Returns(v) == [ok |-> TRUE, value |-> v, error |-> NULL]
Throws(e) == [ok |-> FALSE, value |-> NULL, error |-> e]
NotRead == [ok |-> FALSE, value |-> NULL, error |-> NULL]

\* decrypt(payload, keyHex): every failure inside the try block, a
\* TypeError on a value that has no iv included, becomes an EncryptionError.
Decrypt(payload, key) ==
    IF /\ key \in Keys
       /\ payload.kind = "object"
       /\ payload.iv # NULL
       /\ payload.tag # Missing
       /\ payload.ciphertext # Missing
       /\ payload.tag = AuthTag(key, payload.iv, payload.ciphertext)
       /\ payload.ciphertext.key = key
       /\ payload.ciphertext.iv = payload.iv
    THEN Returns(payload.ciphertext.plain)
    ELSE Throws("EncryptionError")

\* decryptPassword(mapping)
NotPayloadError == "MappingError"
DecryptPassword(value, key) ==
    IF IsEncryptedPayload(value) THEN Decrypt(value, key) ELSE Throws(NotPayloadError)

\* decryptConnectionPassword(saved)
DecryptConnectionPassword(value, key) == Decrypt(value, key)

\* What a password field can hold after the file was changed outside the
\* program: an altered ciphertext, tag or iv, an incomplete object, a
\* string, null.
Altered(value) ==
    {[value EXCEPT !.ciphertext.plain = p] : p \in Passwords \ {value.ciphertext.plain}}
    \cup {[value EXCEPT !.tag.plain = p] : p \in Passwords \ {value.tag.plain}}
    \cup {[value EXCEPT !.iv = v] : v \in Ivs \ {value.iv}}
    \cup {[value EXCEPT !.algorithm = NULL], [value EXCEPT !.tag = Missing],
          [value EXCEPT !.encrypted = FALSE]}
    \cup {PlainString(p) : p \in Passwords} \cup {JsonNull}

Readers == {"mapping", "connection"}

CryptIdle ==
    /\ cryptPc = "idle" /\ pwPlain = NULL /\ pwKey = NULL /\ storedPassword = JsonNull
    /\ fileChanged = FALSE /\ reader = NULL /\ readKey = NULL /\ readResult = NotRead

CryptInit ==
    /\ cryptPc = "start"
    /\ pwPlain \in Passwords
    /\ pwKey \in Keys
    /\ storedPassword = JsonNull
    /\ fileChanged = FALSE
    /\ reader \in Readers
    /\ readKey = NULL
    /\ readResult = NotRead

\* encryptPassword / saveConnection: the password field is written.
StorePassword ==
    /\ cryptPc = "start"
    /\ \E iv \in Ivs : storedPassword' = Encrypt(pwPlain, pwKey, iv)
    /\ cryptPc' = "stored"
    /\ UNCHANGED <<pwPlain, pwKey, fileChanged, reader, readKey, readResult>>
    /\ UNCHANGED notCrypt

\* The file is edited between the write and the read.
ChangeFile ==
    /\ cryptPc = "stored"
    /\ ~fileChanged
    /\ storedPassword' \in Altered(storedPassword)
    /\ fileChanged' = TRUE
    /\ UNCHANGED <<cryptPc, pwPlain, pwKey, reader, readKey, readResult>>
    /\ UNCHANGED notCrypt

\* decryptPassword(mapping) / decryptConnectionPassword(saved) with the key
\* the key file holds at that time.
ReadPassword ==
    /\ cryptPc = "stored"
    /\ \E key \in Keys \cup {InvalidKey} :
        /\ readKey' = key
        /\ readResult' = IF reader = "mapping"
                         THEN DecryptPassword(storedPassword, key)
                         ELSE DecryptConnectionPassword(storedPassword, key)
    /\ cryptPc' = "read"
    /\ UNCHANGED <<pwPlain, pwKey, storedPassword, fileChanged, reader>>
    /\ UNCHANGED notCrypt

CryptNext ==
    \/ StorePassword
    \/ ChangeFile
    \/ ReadPassword

----------------------------------------------------------------------------
(* The map operation (runMap), saved connections and mapping files         *)

MaxRuns == 2

MappingNames == {"m1", "m2"}
ConnectionNames == {"c1"}
SchemaChoices == {"s1", "s2"}
InstanceNames == {NULL, "SQLEXPRESS"}
TrustChoices == {"true", "false"}
\* The random bytes encrypt draws while the map operation runs.
MapIvs == {"iv1"}

\* SourceConnectionConfig: instanceName NULL and trustServerCertificate
\* "absent" stand for a field the object does not have.
Config(e, password, instanceName, trust) ==
    [engine |-> e, database |-> "db", password |-> password,
     instanceName |-> instanceName, trustServerCertificate |-> trust]
NoConfig == Config(NULL, NULL, NULL, "absent")

\* A config together with the code that built it.
Built(config, builder) == [config |-> config, builder |-> builder]
NotBuilt == Built(NoConfig, NULL)

NoFile == [exists |-> FALSE]

\* saveConnection: the SavedConnection object written
SavedConnection(name, config, payload, now) ==
    [exists |-> TRUE, partial |-> FALSE, name |-> name, engine |-> config.engine,
     database |-> config.database, password |-> payload,
     instanceName |-> IF config.instanceName # NULL THEN config.instanceName ELSE NULL,
     trustServerCertificate |-> config.trustServerCertificate,
     createdAt |-> now]

\* runMap step 10: the MappingFile object written
MappingFile(name, e, config, payload, schemas, metadata, now) ==
    [exists |-> TRUE, partial |-> FALSE, name |-> name, createdAt |-> now,
     engine |-> e, database |-> config.database, password |-> payload,
     instanceName |-> IF config.instanceName # NULL THEN config.instanceName ELSE NULL,
     trustServerCertificate |-> config.trustServerCertificate,
     selectedSchemas |-> schemas, tables |-> metadata]

\* fs.writeFile that failed after it truncated the file
PartialFile == [exists |-> TRUE, partial |-> TRUE]

Readable(file) == file.exists /\ ~file.partial

\* gatherConnection, saved connection: the SQL Server fields are carried
\* over only when the selected engine is mssql.
CarryAlways(e) == TRUE
CarryMssqlFields(e) == e = "mssql"

ConfigFromSaved(e, saved, decryptedPassword) ==
    Config(e, decryptedPassword,
           IF CarryMssqlFields(e) /\ saved.instanceName # NULL
           THEN saved.instanceName ELSE NULL,
           IF CarryMssqlFields(e) THEN saved.trustServerCertificate ELSE "absent")

\* getConnectionConfig(saved, decryptedPassword)
GetConnectionConfig(saved, decryptedPassword) ==
    Config(saved.engine, decryptedPassword, saved.instanceName,
           saved.trustServerCertificate)

\* getConnectionFromMapping(mapping, decryptedPassword)
GetConnectionFromMapping(mapping, decryptedPassword) ==
    Config(mapping.engine, decryptedPassword, mapping.instanceName,
           mapping.trustServerCertificate)

SupportsSchemas(e) == e # "mysql"

\* What the password field of a written file holds.
PersistedPlain(config, payload) == PlainString(config.password)
PersistedPassword(config, payload) == payload

\* What the run has done so far.
NewRun ==
    [connected |-> FALSE, introspected |-> {}, encrypted |-> FALSE, writes |-> 0,
     failedAt |-> NULL, aborted |-> NULL]

RunLocalsReset ==
    /\ rmEngine' = NULL
    /\ rmConfig' = NoConfig
    /\ rmSchemas' = {}
    /\ rmPending' = {}
    /\ rmSelected' = {}
    /\ rmName' = NULL
    /\ rmPayload' = JsonNull
    /\ rmRun' = NewRun

MapCmdIdle ==
    /\ rmPc = "idle" /\ runNo = 0 /\ keyFile = NULL
    /\ mappingFiles = [n \in MappingNames |-> NoFile]
    /\ connectionFiles = [n \in ConnectionNames |-> NoFile]
    /\ written = <<>> /\ lastBuilt = NotBuilt
    /\ rmEngine = NULL /\ rmConfig = NoConfig /\ rmSchemas = {} /\ rmPending = {}
    /\ rmSelected = {} /\ rmName = NULL /\ rmPayload = JsonNull
    /\ rmRun = NewRun /\ rmOutcome = NULL

MapCmdInit ==
    /\ rmPc = "idle" /\ runNo = 0 /\ keyFile = "k1"
    /\ mappingFiles = [n \in MappingNames |-> NoFile]
    /\ connectionFiles = [n \in ConnectionNames |-> NoFile]
    /\ written = <<>> /\ lastBuilt = NotBuilt
    /\ rmEngine = NULL /\ rmConfig = NoConfig /\ rmSchemas = {} /\ rmPending = {}
    /\ rmSelected = {} /\ rmName = NULL /\ rmPayload = JsonNull
    /\ rmRun = NewRun /\ rmOutcome = NULL

filesUnchanged == UNCHANGED <<keyFile, mappingFiles, connectionFiles, written>>

\* The run ends: return or throw, after the finally block where there is
\* one.
EndRun(outcome) ==
    /\ rmPc' = "idle"
    /\ rmOutcome' = outcome
    /\ RunLocalsReset


\* runMap steps 1-2: isInitialized, selectEngine, getAdapter
StartRun ==
    /\ rmPc = "idle"
    /\ runNo < MaxRuns
    /\ runNo' = runNo + 1
    /\ \E e \in Engines : rmEngine' = e
    /\ rmPc' = "gather"
    /\ rmRun' = NewRun
    /\ rmOutcome' = NULL
    /\ UNCHANGED <<rmConfig, rmSchemas, rmPending, rmSelected, rmName, rmPayload,
                   lastBuilt>>
    /\ filesUnchanged
    /\ UNCHANGED notMapCmd

\* runMap step 1: not initialized, return
RunNotInitialized ==
    /\ rmPc = "idle"
    /\ runNo < MaxRuns
    /\ runNo' = runNo + 1
    /\ EndRun("notInitialized")
    /\ UNCHANGED lastBuilt
    /\ filesUnchanged
    /\ UNCHANGED notMapCmd

\* gatherConnection, new connection flow
GatherNew ==
    /\ rmPc = "gather"
    /\ \E pw \in Passwords, inst \in InstanceNames, trust \in TrustChoices :
        LET config == IF rmEngine = "mssql"
                      THEN Config(rmEngine, pw, inst, trust)
                      ELSE Config(rmEngine, pw, NULL, "absent")
        IN  /\ rmConfig' = config
            /\ lastBuilt' = Built(config, "prompts")
    /\ rmPc' = "connect"
    /\ UNCHANGED <<runNo, rmEngine, rmSchemas, rmPending, rmSelected, rmName, rmPayload,
                   rmRun, rmOutcome>>
    /\ filesUnchanged
    /\ UNCHANGED notMapCmd

\* gatherConnection, a saved connection is chosen: loadConnection,
\* decryptConnectionPassword; a failure of either leaves runMap (no try).
GatherSaved ==
    /\ rmPc = "gather"
    /\ \E n \in ConnectionNames :
        /\ connectionFiles[n].exists
        /\ LET saved == connectionFiles[n]
               decrypted == DecryptConnectionPassword(saved.password, keyFile)
           IN  IF Readable(saved) /\ decrypted.ok
               THEN /\ rmConfig' = ConfigFromSaved(rmEngine, saved, decrypted.value)
                    /\ lastBuilt' = Built(ConfigFromSaved(rmEngine, saved, decrypted.value),
                                        "savedConnection")
                    /\ rmPc' = "connect"
                    /\ UNCHANGED <<rmEngine, rmSchemas, rmPending, rmSelected, rmName,
                                   rmPayload, rmRun, rmOutcome>>
               ELSE /\ EndRun("failed")
                    /\ UNCHANGED lastBuilt
    /\ UNCHANGED runNo
    /\ filesUnchanged
    /\ UNCHANGED notMapCmd

\* A prompt of gatherConnection is cancelled: the rejection leaves runMap.
GatherCancelled ==
    /\ rmPc = "gather"
    /\ EndRun("failed")
    /\ UNCHANGED <<runNo, lastBuilt>>
    /\ filesUnchanged
    /\ UNCHANGED notMapCmd

\* runMap step 4: adapter.connect(config)
ConnectSucceeds ==
    /\ rmPc = "connect"
    /\ rmRun' = [rmRun EXCEPT !.connected = TRUE]
    /\ rmPc' = "offerSave"
    /\ UNCHANGED <<runNo, rmEngine, rmConfig, rmSchemas, rmPending, rmSelected, rmName,
                   rmPayload, rmOutcome, lastBuilt>>
    /\ filesUnchanged
    /\ UNCHANGED notMapCmd

\* runMap step 4, catch: log and return
AfterConnectFailContinue == "offerSave"
AfterConnectFail == "idle"

ConnectFails ==
    /\ rmPc = "connect"
    /\ IF AfterConnectFail = "idle"
       THEN EndRun("connectFailed")
       ELSE /\ rmPc' = AfterConnectFail
            /\ UNCHANGED <<rmEngine, rmConfig, rmSchemas, rmPending, rmSelected, rmName,
                           rmPayload, rmRun, rmOutcome>>
    /\ UNCHANGED <<runNo, lastBuilt>>
    /\ filesUnchanged
    /\ UNCHANGED notMapCmd

\* offerSaveConnection: declined
DeclineSaveConnection ==
    /\ rmPc = "offerSave"
    /\ rmPc' = "schemas"
    /\ UNCHANGED <<runNo, rmEngine, rmConfig, rmSchemas, rmPending, rmSelected, rmName,
                   rmPayload, rmRun, rmOutcome, lastBuilt>>
    /\ filesUnchanged
    /\ UNCHANGED notMapCmd

\* offerSaveConnection: saveConnection(connName, config) writes the file
SaveConnection ==
    /\ rmPc = "offerSave"
    /\ \E n \in ConnectionNames, iv \in MapIvs :
        connectionFiles' =
            [connectionFiles EXCEPT ![n] =
                SavedConnection(n, rmConfig,
                    PersistedPassword(rmConfig, Encrypt(rmConfig.password, keyFile, iv)),
                    runNo)]
    /\ rmPc' = "schemas"
    /\ UNCHANGED <<runNo, rmEngine, rmConfig, rmSchemas, rmPending, rmSelected, rmName,
                   rmPayload, rmRun, rmOutcome, lastBuilt>>
    /\ UNCHANGED <<keyFile, mappingFiles, written>>
    /\ UNCHANGED notMapCmd

\* offerSaveConnection: a prompt or saveConnection fails; the catch block
\* swallows it. A write that failed may have truncated the file.
SaveConnectionFails ==
    /\ rmPc = "offerSave"
    /\ \/ UNCHANGED connectionFiles
       \/ \E n \in ConnectionNames :
            connectionFiles' = [connectionFiles EXCEPT ![n] = PartialFile]
    /\ rmPc' = "schemas"
    /\ UNCHANGED <<runNo, rmEngine, rmConfig, rmSchemas, rmPending, rmSelected, rmName,
                   rmPayload, rmRun, rmOutcome, lastBuilt>>
    /\ UNCHANGED <<keyFile, mappingFiles, written>>
    /\ UNCHANGED notMapCmd

runLocalsKept ==
    UNCHANGED <<runNo, rmEngine, rmConfig, rmName, rmPayload, rmOutcome, lastBuilt>>

\* A step inside the try block throws: catch rethrows, finally runs.
FailAt(stepName) ==
    /\ rmRun' = [rmRun EXCEPT !.failedAt = stepName]
    /\ rmPc' = "finally"

\* A return inside the try block: finally runs.
AbortWith(reason) ==
    /\ rmRun' = [rmRun EXCEPT !.aborted = reason]
    /\ rmPc' = "finally"

\* runMap step 5, MySQL: the database is the single schema
UseDatabaseAsSchema ==
    /\ rmPc = "schemas"
    /\ ~SupportsSchemas(rmEngine)
    /\ rmSchemas' = {rmConfig.database}
    /\ rmPending' = {rmConfig.database}
    /\ rmPc' = "tables"
    /\ UNCHANGED <<rmSelected, rmRun>>
    /\ runLocalsKept
    /\ filesUnchanged
    /\ UNCHANGED notMapCmd

\* runMap step 5: getSchemas and the schema checkbox
SelectSchemas ==
    /\ rmPc = "schemas"
    /\ SupportsSchemas(rmEngine)
    /\ \E found \in SUBSET SchemaChoices :
        \E chosen \in SUBSET found :
            IF found = {}
            THEN /\ AbortWith("noSchemasFound")
                 /\ UNCHANGED <<rmSchemas, rmPending>>
            ELSE IF chosen = {}
            THEN /\ AbortWith("noSchemasSelected")
                 /\ UNCHANGED <<rmSchemas, rmPending>>
            ELSE /\ rmSchemas' = chosen
                 /\ rmPending' = chosen
                 /\ rmPc' = "tables"
                 /\ UNCHANGED rmRun
    /\ UNCHANGED rmSelected
    /\ runLocalsKept
    /\ filesUnchanged
    /\ UNCHANGED notMapCmd

\* runMap step 5: getSchemas or the prompt throws
SchemasFail ==
    /\ rmPc = "schemas"
    /\ SupportsSchemas(rmEngine)
    /\ FailAt("schemas")
    /\ UNCHANGED <<rmSchemas, rmPending, rmSelected>>
    /\ runLocalsKept
    /\ filesUnchanged
    /\ UNCHANGED notMapCmd

\* Where runMap goes once the table loop has visited every schema.
AfterTablesReturn(selected) == IF selected = {} THEN "idle" ELSE "introspect"
AfterTables(selected) == IF selected = {} THEN "finally" ELSE "introspect"

\* runMap step 6, one iteration: getTables and the table checkbox of one
\* schema; someSelected is whether a table of it was selected. After the
\* last schema: no table at all aborts, else tablesBySchema is built.
SelectTables ==
    /\ rmPc = "tables"
    /\ \E s \in rmPending, someSelected \in BOOLEAN :
        LET selected == IF someSelected THEN rmSelected \cup {s} ELSE rmSelected
            pending == rmPending \ {s}
        IN  /\ rmSelected' = selected
            /\ IF pending # {}
               THEN /\ rmPending' = pending
                    /\ UNCHANGED <<rmPc, rmRun>>
               ELSE /\ rmPending' = selected
                    /\ rmPc' = AfterTables(selected)
                    /\ rmRun' = IF selected = {}
                                THEN [rmRun EXCEPT !.aborted = "noTablesSelected"]
                                ELSE rmRun
    /\ UNCHANGED rmSchemas
    /\ runLocalsKept
    /\ filesUnchanged
    /\ UNCHANGED notMapCmd

\* runMap step 6: getTables or the prompt throws
TablesFail ==
    /\ rmPc = "tables"
    /\ FailAt("tables")
    /\ UNCHANGED <<rmSchemas, rmPending, rmSelected>>
    /\ runLocalsKept
    /\ filesUnchanged
    /\ UNCHANGED notMapCmd

\* runMap step 7, one iteration over tablesBySchema
IntrospectSchema ==
    /\ rmPc = "introspect"
    /\ \E s \in rmPending :
        /\ rmRun' = [rmRun EXCEPT !.introspected = @ \cup {s}]
        /\ rmPending' = rmPending \ {s}
        /\ rmPc' = IF rmPending \ {s} = {} THEN "prompt" ELSE "introspect"
    /\ UNCHANGED <<rmSchemas, rmSelected>>
    /\ runLocalsKept
    /\ filesUnchanged
    /\ UNCHANGED notMapCmd

\* runMap step 7: introspectSchema throws
IntrospectFails ==
    /\ rmPc = "introspect"
    /\ FailAt("introspect")
    /\ UNCHANGED <<rmSchemas, rmPending, rmSelected>>
    /\ runLocalsKept
    /\ filesUnchanged
    /\ UNCHANGED notMapCmd

\* runMap step 9: mapping name, export format, output directory
PromptMappingName ==
    /\ rmPc = "prompt"
    /\ \E n \in MappingNames : rmName' = n
    /\ rmPc' = "encrypt"
    /\ UNCHANGED <<runNo, rmEngine, rmConfig, rmSchemas, rmPending, rmSelected, rmPayload,
                   rmRun, rmOutcome, lastBuilt>>
    /\ filesUnchanged
    /\ UNCHANGED notMapCmd

\* runMap step 9: a prompt is cancelled
PromptFails ==
    /\ rmPc = "prompt"
    /\ FailAt("prompt")
    /\ UNCHANGED <<rmSchemas, rmPending, rmSelected>>
    /\ runLocalsKept
    /\ filesUnchanged
    /\ UNCHANGED notMapCmd

\* runMap step 10: encryptPassword(config.password)
EncryptPassword ==
    /\ rmPc = "encrypt"
    /\ \E iv \in MapIvs : rmPayload' = Encrypt(rmConfig.password, keyFile, iv)
    /\ rmRun' = [rmRun EXCEPT !.encrypted = TRUE]
    /\ rmPc' = "save"
    /\ UNCHANGED <<runNo, rmEngine, rmConfig, rmSchemas, rmPending, rmSelected, rmName,
                   rmOutcome, lastBuilt>>
    /\ filesUnchanged
    /\ UNCHANGED notMapCmd

\* runMap step 10: readEncryptionKey or encrypt throws
EncryptFails ==
    /\ rmPc = "encrypt"
    /\ FailAt("encrypt")
    /\ UNCHANGED <<rmSchemas, rmPending, rmSelected>>
    /\ runLocalsKept
    /\ filesUnchanged
    /\ UNCHANGED notMapCmd

\* saveMappingFile(mapping): writeJsonFile on <mappingsDir>/<name>.mapping.json
SaveMappingFile ==
    /\ rmPc = "save"
    /\ LET mapping == MappingFile(rmName, rmEngine, rmConfig,
                                  PersistedPassword(rmConfig, rmPayload),
                                  rmSchemas, rmRun.introspected, runNo)
       IN  /\ mappingFiles' = [mappingFiles EXCEPT ![rmName] = mapping]
           /\ written' = Append(written, mapping)
    /\ rmRun' = [rmRun EXCEPT !.writes = @ + 1]
    /\ rmPc' = "finally"
    /\ UNCHANGED <<rmSchemas, rmPending, rmSelected>>
    /\ runLocalsKept
    /\ UNCHANGED <<keyFile, connectionFiles>>
    /\ UNCHANGED notMapCmd

\* saveMappingFile throws: the file is untouched, or fs.writeFile had
\* already truncated it.
SaveMappingFileFails ==
    /\ rmPc = "save"
    /\ \/ UNCHANGED mappingFiles
       \/ mappingFiles' = [mappingFiles EXCEPT ![rmName] = PartialFile]
    /\ FailAt("save")
    /\ UNCHANGED <<rmSchemas, rmPending, rmSelected>>
    /\ runLocalsKept
    /\ UNCHANGED <<keyFile, connectionFiles, written>>
    /\ UNCHANGED notMapCmd

\* How the run ends once the finally block has run.
RunOutcome(run, disconnected) ==
    IF run.failedAt # NULL THEN "failed"
    ELSE IF ~disconnected THEN "failed"
    ELSE IF run.aborted # NULL THEN "aborted"
    ELSE "saved"

\* finally: adapter.disconnect(), which may itself throw
Disconnect ==
    /\ rmPc = "finally"
    /\ \E disconnected \in BOOLEAN : EndRun(RunOutcome(rmRun, disconnected))
    /\ UNCHANGED <<runNo, lastBuilt>>
    /\ filesUnchanged
    /\ UNCHANGED notMapCmd

\* Another command reads a mapping file: decryptPassword, then
\* getConnectionFromMapping.
ConfigFromMappingFile ==
    /\ rmPc = "idle"
    /\ \E n \in MappingNames :
        /\ Readable(mappingFiles[n])
        /\ LET decrypted == DecryptPassword(mappingFiles[n].password, keyFile)
           IN  /\ decrypted.ok
               /\ lastBuilt' = Built(GetConnectionFromMapping(mappingFiles[n],
                                                           decrypted.value),
                                  "getConnectionFromMapping")
    /\ UNCHANGED <<runNo, rmPc, rmEngine, rmConfig, rmSchemas, rmPending, rmSelected,
                   rmName, rmPayload, rmRun, rmOutcome>>
    /\ filesUnchanged
    /\ UNCHANGED notMapCmd

\* Another command reads a saved connection: decryptConnectionPassword, then
\* getConnectionConfig.
ConfigFromSavedConnection ==
    /\ rmPc = "idle"
    /\ \E n \in ConnectionNames :
        /\ Readable(connectionFiles[n])
        /\ LET decrypted == DecryptConnectionPassword(connectionFiles[n].password, keyFile)
           IN  /\ decrypted.ok
               /\ lastBuilt' = Built(GetConnectionConfig(connectionFiles[n], decrypted.value),
                                  "getConnectionConfig")
    /\ UNCHANGED <<runNo, rmPc, rmEngine, rmConfig, rmSchemas, rmPending, rmSelected,
                   rmName, rmPayload, rmRun, rmOutcome>>
    /\ filesUnchanged
    /\ UNCHANGED notMapCmd

MapCmdNext ==
    \/ StartRun
    \/ RunNotInitialized
    \/ GatherNew
    \/ GatherSaved
    \/ GatherCancelled
    \/ ConnectSucceeds
    \/ ConnectFails
    \/ DeclineSaveConnection
    \/ SaveConnection
    \/ SaveConnectionFails
    \/ UseDatabaseAsSchema
    \/ SelectSchemas
    \/ SchemasFail
    \/ SelectTables
    \/ TablesFail
    \/ IntrospectSchema
    \/ IntrospectFails
    \/ PromptMappingName
    \/ PromptFails
    \/ EncryptPassword
    \/ EncryptFails
    \/ SaveMappingFile
    \/ SaveMappingFileFails
    \/ Disconnect
    \/ ConfigFromMappingFile
    \/ ConfigFromSavedConnection


----------------------------------------------------------------------------
(* getForeignKeys: grouping the foreign-key catalog rows                   *)

MaxFkRows == 3

ConstraintNames == {"fk1", "fk2"}
FkColumnNames == {"a", "b"}
FkReferencedColumns == {"x", "y"}

\* One row of QUERY_FOREIGN_KEYS
FkRow(constraintName, columnName, referencedColumn) ==
    [constraintName |-> constraintName, columnName |-> columnName,
     referencedColumn |-> referencedColumn]

FkRows ==
    {FkRow(n, c, r) : n \in ConstraintNames, c \in FkColumnNames, r \in FkReferencedColumns}

FkRecordsets == UNION {[1..n -> FkRows] : n \in 0..MaxFkRows}

\* grouped.get(name): the position of the entry in the Map, which keeps its
\* entries in insertion order; 0 when there is none.
MapGet(grouped, name) ==
    IF \E k \in 1..Len(grouped) : grouped[k].constraintName = name
    THEN CHOOSE k \in 1..Len(grouped) : grouped[k].constraintName = name
    ELSE 0

\* existing.columns.push(value)
PushFront(list, value) == <<value>> \o list
Push(list, value) == Append(list, value)

\* The body of the for loop over the rows
GroupRow(grouped, row) ==
    LET existing == MapGet(grouped, row.constraintName)
    IN  IF existing # 0
        THEN [grouped EXCEPT
                ![existing].columns = Push(@, row.columnName),
                ![existing].referencedColumns = Push(@, row.referencedColumn)]
        ELSE Append(grouped,
                    [constraintName |-> row.constraintName,
                     columns |-> <<row.columnName>>,
                     referencedColumns |-> <<row.referencedColumn>>])

RECURSIVE GroupRows(_, _)
GroupRows(grouped, rows) ==
    IF rows = <<>> THEN grouped
    ELSE GroupRows(GroupRow(grouped, Head(rows)), Tail(rows))

\* getForeignKeys of the three adapters: Array.from(grouped.values())
GroupForeignKeys(e, rows) == GroupRows(<<>>, rows)

FkIdle == fkPc = "idle" /\ fkEngine = NULL /\ fkRows = <<>> /\ fkResult = <<>>

FkInit ==
    /\ fkPc = "query"
    /\ fkEngine \in Engines
    /\ fkRows \in FkRecordsets
    /\ fkResult = <<>>

\* The query resolved with fkRows: group and return.
GetForeignKeys ==
    /\ fkPc = "query"
    /\ fkResult' = GroupForeignKeys(fkEngine, fkRows)
    /\ fkPc' = "returned"
    /\ UNCHANGED <<fkEngine, fkRows>>
    /\ UNCHANGED notFk

\* The query rejected: getForeignKeys throws.
GetForeignKeysFails ==
    /\ fkPc = "query"
    /\ fkPc' = "thrown"
    /\ UNCHANGED <<fkEngine, fkRows, fkResult>>
    /\ UNCHANGED notFk

FkNext ==
    \/ GetForeignKeys
    \/ GetForeignKeysFails

----------------------------------------------------------------------------
(* The generate-ddl operation (runGenerateDDL)                             *)

DdlOutputs == {"out.sql", "m1-snowflake.sql", "m2-snowflake.sql"}

\* options.mapping: absent, a mapping name, a path
DdlMappingOptions == {NULL, "m1", "maps/m2.mapping.json"}

\* The mapping a name or a path stands for.
DdlMappingOf(arg) == IF arg = "maps/m2.mapping.json" THEN "m2" ELSE arg

\* `${mapping.name}-snowflake.sql`
DefaultOutput(name) == IF name = "m1" THEN "m1-snowflake.sql" ELSE "m2-snowflake.sql"

\* result.sql of generateDDL(mapping.tables)
DdlSql(name) == [sql |-> "ddl", of |-> name]
NoSql == [sql |-> NULL, of |-> NULL]
OldContent == [sql |-> "old", of |-> NULL]

DdlIdle ==
    /\ ddlPc = "idle"
    /\ ddlOptions = [mapping |-> NULL, output |-> NULL, preview |-> FALSE]
    /\ ddlReadable = {}
    /\ ddlMapping = NULL
    /\ ddlResult = NoSql
    /\ ddlFiles = [f \in DdlOutputs |-> NoSql]
    /\ ddlOutcome = NULL

DdlInit ==
    /\ ddlPc \in {"load", "notInitialized"}
    /\ ddlOptions \in [mapping : DdlMappingOptions, output : {NULL, "out.sql"},
                       preview : BOOLEAN]
    /\ ddlReadable \in SUBSET MappingNames
    /\ ddlMapping = NULL
    /\ ddlResult = NoSql
    /\ ddlFiles \in [DdlOutputs -> {NoSql, OldContent}]
    /\ ddlOutcome = NULL

DdlReturn(outcome) ==
    /\ ddlPc' = "done"
    /\ ddlOutcome' = outcome

\* step 1: isInitialized() is false
DdlNotInitialized ==
    /\ ddlPc = "notInitialized"
    /\ DdlReturn("notInitialized")
    /\ UNCHANGED <<ddlOptions, ddlReadable, ddlMapping, ddlResult, ddlFiles>>
    /\ UNCHANGED notDdl

\* step 2: the mapping is loaded by name, by path, or chosen from the list;
\* an empty list and a failed load return.
DdlLoadMapping ==
    /\ ddlPc = "load"
    /\ \E chosen \in MappingNames :
        LET wanted == IF ddlOptions.mapping # NULL THEN DdlMappingOf(ddlOptions.mapping)
                      ELSE chosen
        IN  IF ddlOptions.mapping = NULL /\ ddlReadable = {}
            THEN /\ DdlReturn("noMappings")
                 /\ UNCHANGED ddlMapping
            ELSE IF wanted \in ddlReadable
            THEN /\ ddlMapping' = wanted
                 /\ ddlPc' = "generate"
                 /\ UNCHANGED ddlOutcome
            ELSE /\ DdlReturn("loadFailed")
                 /\ UNCHANGED ddlMapping
    /\ UNCHANGED <<ddlOptions, ddlReadable, ddlResult, ddlFiles>>
    /\ UNCHANGED notDdl

\* step 3: generateDDL(mapping.tables) resolves
DdlGenerate ==
    /\ ddlPc = "generate"
    /\ ddlResult' = DdlSql(ddlMapping)
    /\ ddlPc' = "output"
    /\ UNCHANGED <<ddlOptions, ddlReadable, ddlMapping, ddlFiles, ddlOutcome>>
    /\ UNCHANGED notDdl

\* step 3, catch: log and return
AfterGenerateFailGoesOn == "output"
AfterGenerateFail == "done"

DdlGenerateFails ==
    /\ ddlPc = "generate"
    /\ ddlPc' = AfterGenerateFail
    /\ ddlOutcome' = "generateFailed"
    /\ UNCHANGED <<ddlOptions, ddlReadable, ddlMapping, ddlResult, ddlFiles>>
    /\ UNCHANGED notDdl

\* step 5, options.preview: console.log(result.sql)
DdlPreview ==
    /\ ddlPc = "output"
    /\ ddlOptions.preview
    /\ DdlReturn("previewed")
    /\ UNCHANGED <<ddlOptions, ddlReadable, ddlMapping, ddlResult, ddlFiles>>
    /\ UNCHANGED notDdl

\* step 5: writeTextFile(outputFile, result.sql)
DdlWrite ==
    /\ ddlPc = "output"
    /\ ~ddlOptions.preview
    /\ \E prompted \in {DefaultOutput(ddlMapping), "out.sql"} :
        LET outputFile == IF ddlOptions.output # NULL THEN ddlOptions.output ELSE prompted
        IN  ddlFiles' = [ddlFiles EXCEPT ![outputFile] = ddlResult]
    /\ DdlReturn("written")
    /\ UNCHANGED <<ddlOptions, ddlReadable, ddlMapping, ddlResult>>
    /\ UNCHANGED notDdl

\* step 5: the prompt is cancelled or writeTextFile rejects; the rejection
\* leaves runGenerateDDL.
DdlWriteFails ==
    /\ ddlPc = "output"
    /\ ~ddlOptions.preview
    /\ DdlReturn("thrown")
    /\ UNCHANGED <<ddlOptions, ddlReadable, ddlMapping, ddlResult, ddlFiles>>
    /\ UNCHANGED notDdl

DdlNext ==
    \/ DdlNotInitialized
    \/ DdlLoadMapping
    \/ DdlGenerate
    \/ DdlGenerateFails
    \/ DdlPreview
    \/ DdlWrite
    \/ DdlWriteFails

----------------------------------------------------------------------------
(* introspectTable / introspectSchema: concurrent catalog fetches          *)

MaxIntroTables == 2

IntroTableNames == {"t1", "t2"}

\* The fetches of introspectTable, by their position in the array given to
\* Promise.all: getColumns, getPrimaryKey, getForeignKeys, getIndexes.
FetchKinds == 1..4

\* What a catalog fetch of a table resolves with.
FetchValue(table, kind) == [table |-> table, kind |-> kind]
Unset == [table |-> NULL, kind |-> 0]

\* Promise.all stores the value of the promise at position `index` at that
\* position, however many promises settled before it.
SlotByCompletion(index, settledBefore) == settledBefore + 1
SlotOf(index, settledBefore) == index

\* Promise.all over promises with these statuses
PromiseAll(statuses) ==
    IF "rejected" \in statuses THEN "rejected"
    ELSE IF "pending" \in statuses THEN "pending"
    ELSE "resolved"

\* introspectTable: the object returned once Promise.all resolved
TableMetadata(table, values) ==
    [tableName |-> table, columns |-> values[1], primaryKey |-> values[2],
     foreignKeys |-> values[3], indexes |-> values[4], sequences |-> {}]
NoMetadata == TableMetadata(NULL, [k \in FetchKinds |-> Unset])

\* introspectSchema of MySQL has no sequence fetch.
HasSequences(e) == e # "mysql"

\* introspectSchema: PostgreSQL attaches a sequence to its owner table,
\* SQL Server puts the sequences on the first table. The one sequence of the
\* schema is owned by t1.
AttachSequences(e, metadata) ==
    [n \in 1..Len(metadata) |->
        IF \/ e = "postgresql" /\ metadata[n].tableName = "t1"
                /\ \A j \in 1..(n - 1) : metadata[j].tableName # "t1"
           \/ e = "mssql" /\ n = 1
        THEN [metadata[n] EXCEPT !.sequences = {"seq1"}]
        ELSE metadata[n]]

Resolved(statuses) == Cardinality({k \in DOMAIN statuses : statuses[k] = "resolved"})

TableStatus(n) == PromiseAll({fetchStatus[n][k] : k \in FetchKinds})

\* The status of the promise introspectSchema awaits.
SchemaStatus ==
    PromiseAll({TableStatus(n) : n \in 1..Len(introTables)}
               \cup (IF HasSequences(introEngine) THEN {seqStatus} ELSE {}))

IntroIdle ==
    /\ introPc = "idle" /\ introEngine = NULL /\ introTables = <<>>
    /\ fetchStatus = <<>> /\ fetchValues = <<>> /\ tablesDone = <<>>
    /\ seqStatus = "pending" /\ introResult = <<>>

\* introspectSchema(schemaName, tableNames) has issued every fetch.
IntroInit ==
    /\ introPc = "awaiting"
    /\ introEngine \in Engines
    /\ introTables \in UNION {[1..n -> IntroTableNames] : n \in 0..MaxIntroTables}
    /\ fetchStatus = [n \in 1..Len(introTables) |-> [k \in FetchKinds |-> "pending"]]
    /\ fetchValues = [n \in 1..Len(introTables) |-> [k \in FetchKinds |-> Unset]]
    /\ tablesDone = [n \in 1..Len(introTables) |-> NoMetadata]
    /\ seqStatus = "pending"
    /\ introResult = <<>>

\* The fetch `kind` of the table at position n resolves; when it is the last
\* of the four, introspectTable returns and the outer Promise.all stores the
\* metadata.
FetchResolves(n, kind) ==
    /\ introPc # "idle"
    /\ fetchStatus[n][kind] = "pending"
    /\ LET values == [fetchValues[n] EXCEPT
                         ![SlotOf(kind, Resolved(fetchStatus[n]))] =
                             FetchValue(introTables[n], kind)]
           status == [fetchStatus[n] EXCEPT ![kind] = "resolved"]
           done == Cardinality({j \in 1..Len(introTables) : TableStatus(j) = "resolved"})
       IN  /\ fetchStatus' = [fetchStatus EXCEPT ![n] = status]
           /\ fetchValues' = [fetchValues EXCEPT ![n] = values]
           /\ tablesDone' = IF Resolved(status) = 4
                            THEN [tablesDone EXCEPT ![SlotOf(n, done)] =
                                     TableMetadata(introTables[n], values)]
                            ELSE tablesDone
    /\ UNCHANGED <<introPc, introEngine, introTables, seqStatus, introResult>>
    /\ UNCHANGED notIntro

\* The fetch `kind` of the table at position n rejects.
FetchRejects(n, kind) ==
    /\ introPc # "idle"
    /\ fetchStatus[n][kind] = "pending"
    /\ fetchStatus' = [fetchStatus EXCEPT ![n][kind] = "rejected"]
    /\ UNCHANGED <<introPc, introEngine, introTables, fetchValues, tablesDone, seqStatus,
                   introResult>>
    /\ UNCHANGED notIntro

\* getSequences(schemaName) settles.
SequencesSettle ==
    /\ introPc # "idle"
    /\ HasSequences(introEngine)
    /\ seqStatus = "pending"
    /\ seqStatus' \in {"resolved", "rejected"}
    /\ UNCHANGED <<introPc, introEngine, introTables, fetchStatus, fetchValues, tablesDone,
                   introResult>>
    /\ UNCHANGED notIntro

\* The awaited promise resolved: sequences are attached, tables returned.
IntrospectSchemaReturns ==
    /\ introPc = "awaiting"
    /\ SchemaStatus = "resolved"
    /\ introResult' = AttachSequences(introEngine, tablesDone)
    /\ introPc' = "returned"
    /\ UNCHANGED <<introEngine, introTables, fetchStatus, fetchValues, tablesDone, seqStatus>>
    /\ UNCHANGED notIntro

\* The awaited promise rejected: introspectSchema throws.
IntrospectSchemaThrows ==
    /\ introPc = "awaiting"
    /\ SchemaStatus = "rejected"
    /\ introPc' = "thrown"
    /\ UNCHANGED <<introEngine, introTables, fetchStatus, fetchValues, tablesDone, seqStatus,
                   introResult>>
    /\ UNCHANGED notIntro

IntroNext ==
    \/ \E n \in 1..Len(introTables), kind \in FetchKinds : FetchResolves(n, kind)
    \/ \E n \in 1..Len(introTables), kind \in FetchKinds : FetchRejects(n, kind)
    \/ SequencesSettle
    \/ IntrospectSchemaReturns
    \/ IntrospectSchemaThrows

----------------------------------------------------------------------------
(* The REPL                                                                *)

MaxReplLines == 3

\* The lines the terminal can deliver: an empty line, a command without an
\* await (help), a command that awaits on the shared connection (map), exit.
ReplLines == {"", "help", "map", "exit"}

\* client of the PostgreSQL service: null, or the connection opened by the
\* handler with that index.
NoClient == 0

ReplIdle ==
    /\ replInput = <<>> /\ handlers = <<>> /\ replClient = NoClient
    /\ uses = {} /\ prompts = 0 /\ exited = FALSE

\* startRepl has created the interface, registered the 'line' listener and
\* shown the first prompt.
ReplInit ==
    /\ replInput \in UNION {[1..n -> ReplLines] : n \in 0..MaxReplLines}
    /\ handlers = <<>>
    /\ replClient = NoClient
    /\ uses = {}
    /\ prompts = 1
    /\ exited = FALSE

Running(h) == handlers[h].pc # "done"

\* readline emits 'line' for an empty line: prompt and return.
LineEmpty ==
    /\ UNCHANGED notRepl
    /\ ~exited /\ replInput # <<>> /\ Head(replInput) = ""
    /\ replInput' = Tail(replInput)
    /\ prompts' = prompts + 1
    /\ UNCHANGED <<handlers, replClient, uses, exited>>

\* readline emits 'line' for a command whose case has no await: the
\* listener runs to its final rl.prompt() in the same turn.
LineHelp ==
    /\ UNCHANGED notRepl
    /\ ~exited /\ replInput # <<>> /\ Head(replInput) = "help"
    /\ replInput' = Tail(replInput)
    /\ handlers' = Append(handlers, [cmd |-> "help", pc |-> "done"])
    /\ prompts' = prompts + 1
    /\ UNCHANGED <<replClient, uses, exited>>

\* readline emits 'line' for exit: rl.close(), process.exit(0).
LineExit ==
    /\ UNCHANGED notRepl
    /\ ~exited /\ replInput # <<>> /\ Head(replInput) = "exit"
    /\ replInput' = Tail(replInput)
    /\ exited' = TRUE
    /\ UNCHANGED <<handlers, replClient, uses, prompts>>

\* readline emits 'line' for map: the listener runs up to its first await
\* inside runMap() and returns a pending promise to the emitter, which
\* neither waits for it nor pauses the interface.
LineMap ==
    /\ UNCHANGED notRepl
    /\ ~exited /\ replInput # <<>> /\ Head(replInput) = "map"
    /\ replInput' = Tail(replInput)
    /\ handlers' = Append(handlers, [cmd |-> "map", pc |-> "started"])
    /\ UNCHANGED <<replClient, uses, prompts, exited>>

\* connect(config) of a suspended handler: client = new Client(...).
HandlerConnects(h) ==
    /\ UNCHANGED notRepl
    /\ ~exited /\ handlers[h].pc = "started"
    /\ replClient' = h
    /\ handlers' = [handlers EXCEPT ![h].pc = "connected"]
    /\ UNCHANGED <<replInput, uses, prompts, exited>>

\* A query of a suspended handler: getClient() hands out whatever client
\* holds now, and throws when it is null.
HandlerQueries(h) ==
    /\ UNCHANGED notRepl
    /\ ~exited /\ handlers[h].pc = "connected"
    /\ IF replClient = NoClient
       THEN /\ handlers' = [handlers EXCEPT ![h].pc = "failed"]
            /\ UNCHANGED uses
       ELSE /\ handlers' = [handlers EXCEPT ![h].pc = "queried"]
            /\ uses' = uses \cup {<<h, replClient>>}
    /\ UNCHANGED <<replInput, replClient, prompts, exited>>

\* The command of a suspended handler finishes: disconnect() ends and
\* clears whatever client holds, runMap() resolves, the listener resumes
\* after its await and shows the prompt.
HandlerReturns(h) ==
    /\ UNCHANGED notRepl
    /\ ~exited /\ handlers[h].pc \in {"started", "queried", "failed"}
    /\ replClient' = IF handlers[h].pc = "started" THEN replClient ELSE NoClient
    /\ handlers' = [handlers EXCEPT ![h].pc = "done"]
    /\ prompts' = prompts + 1
    /\ UNCHANGED <<replInput, uses, exited>>

ReplNext ==
    \/ LineEmpty
    \/ LineHelp
    \/ LineExit
    \/ LineMap
    \/ \E h \in 1..Len(handlers) : HandlerConnects(h)
    \/ \E h \in 1..Len(handlers) : HandlerQueries(h)
    \/ \E h \in 1..Len(handlers) : HandlerReturns(h)

----------------------------------------------------------------------------
(* Specifications                                                          *)

\* Each specification runs one part of the program; the other parts stay
\* in their idle state.
ExportStart == ExportInit /\ ConnIdle /\ MapIdle /\ CryptIdle /\ MapCmdIdle /\ FkIdle /\ DdlIdle /\ IntroIdle /\ ReplIdle
SpecExport == ExportStart /\ [][ExportNext]_vars

ConnStart == ConnInit /\ ExportIdle /\ MapIdle /\ CryptIdle /\ MapCmdIdle /\ FkIdle /\ DdlIdle /\ IntroIdle /\ ReplIdle
SpecConn == ConnStart /\ [][ConnNext]_vars

MapStart == MapInit /\ ExportIdle /\ ConnIdle /\ CryptIdle /\ MapCmdIdle /\ FkIdle /\ DdlIdle /\ IntroIdle /\ ReplIdle
SpecMap == MapStart /\ [][MapNext]_vars

CryptStart == CryptInit /\ ExportIdle /\ ConnIdle /\ MapIdle /\ MapCmdIdle /\ FkIdle /\ DdlIdle /\ IntroIdle /\ ReplIdle
SpecCrypt == CryptStart /\ [][CryptNext]_vars

MapCmdStart == MapCmdInit /\ ExportIdle /\ ConnIdle /\ MapIdle /\ CryptIdle /\ FkIdle /\ DdlIdle /\ IntroIdle /\ ReplIdle
SpecMapCmd == MapCmdStart /\ [][MapCmdNext]_vars

FkStart == FkInit /\ ExportIdle /\ ConnIdle /\ MapIdle /\ CryptIdle /\ MapCmdIdle /\ DdlIdle /\ IntroIdle /\ ReplIdle
SpecFk == FkStart /\ [][FkNext]_vars

DdlStart == DdlInit /\ ExportIdle /\ ConnIdle /\ MapIdle /\ CryptIdle /\ MapCmdIdle /\ FkIdle /\ IntroIdle /\ ReplIdle
SpecDdl == DdlStart /\ [][DdlNext]_vars

IntroStart == IntroInit /\ ExportIdle /\ ConnIdle /\ MapIdle /\ CryptIdle /\ MapCmdIdle /\ FkIdle /\ DdlIdle /\ ReplIdle
SpecIntro == IntroStart /\ [][IntroNext]_vars

ReplStart == ReplInit /\ ExportIdle /\ ConnIdle /\ MapIdle /\ CryptIdle /\ MapCmdIdle /\ FkIdle /\ DdlIdle /\ IntroIdle
SpecRepl == ReplStart /\ [][ReplNext]_vars

----------------------------------------------------------------------------
(* Claims about exportTables                                               *)

Returned == pc = "done"

\* C1: for every engine and every input table list the call returns exactly
\* one ExportResult per input table, in input order (result k carries the
\* schemaName and tableName of input table k), and never throws.
C1_OneResultPerTable ==
    /\ pc # "thrown"
    /\ Returned =>
          /\ Len(results) = Len(tables)
          /\ \A k \in 1..Len(tables) :
                /\ results[k].schemaName = tables[k].schemaName
                /\ results[k].tableName = tables[k].tableName

\* C2: when the export of a table fails, its ExportResult has status
\* 'error', rowCount 0, fileSize 0 and the caught error message; every other
\* table is still attempted and gets the status its own export produced.
C2_FailureIsolated ==
    /\ Len(outcomes) <= Len(results)
    /\ \A k \in 1..Len(outcomes) :
          IF outcomes[k].ok
          THEN /\ results[k].status = "success"
               /\ results[k].rowCount = outcomes[k].rows
          ELSE /\ results[k].status = "error"
               /\ results[k].rowCount = 0
               /\ results[k].fileSize = 0
               /\ results[k].error = outcomes[k].msg
               /\ results[k].error \in ErrMsgs
    /\ (Returned /\ \E k \in 1..Len(outcomes) : ~outcomes[k].ok) =>
          /\ Len(outcomes) = Len(tables)
          /\ started = [k \in 1..Len(tables) |-> k]

\* Three tables, only the second fails: success, error, success.
C2_Witness ==
    /\ Returned
    /\ Len(tables) = 3
    /\ Len(outcomes) = 3
    /\ outcomes[1].ok /\ ~outcomes[2].ok /\ outcomes[3].ok
    /\ results[1].status = "success"
    /\ results[2].status = "error"
    /\ results[3].status = "success"

\* C3: per-table exports run strictly sequentially in input-list order: the
\* export of table k+1 starts only after the export of table k has finished,
\* so at most one export is in flight.
C3_Sequential ==
    /\ Len(started) - Len(outcomes) \in {0, 1}
    /\ \A k \in 1..Len(started) : started[k] = k
    /\ (pc = "exporting" \/ pc = "catch") <=> (Len(started) = Len(outcomes) + 1)

\* The third table's export is in flight after the first two have finished.
C3_Witness ==
    /\ pc = "exporting"
    /\ step > 1
    /\ Len(started) = 3
    /\ Len(outcomes) = 2

\* C4 as stated: when onProgress is supplied, every table that receives an
\* ExportResult has had exactly one onProgress call.
C4_ProgressForEveryResult ==
    hasProgress =>
        \A k \in 1..Len(results) :
            Cardinality({c \in 1..Len(progressCalls) : progressCalls[c].index = k - 1}) = 1

\* C4 amended: when onProgress is supplied, every table whose export work
\* began has had exactly one onProgress call, made before that work began,
\* with the display name '<schema>.<table>', the zero-based index and the
\* total count; the calls are in increasing index order.
C4_ProgressBeforeEachExport ==
    hasProgress =>
        progressCalls =
            [k \in 1..Len(started) |->
                [name |-> tables[k].schemaName \o "." \o tables[k].tableName,
                 index |-> k - 1,
                 total |-> Len(tables),
                 begun |-> k - 1]]

C4_Witness ==
    /\ hasProgress
    /\ Returned
    /\ Len(tables) = 3
    /\ Len(progressCalls) = 3
    /\ Len(results) = 3

----------------------------------------------------------------------------
(* Claims about connection handling                                        *)

StoredIsLive == stored # 0 /\ handles[stored].state = "live"

\* C5: each adapter instance owns its connection state: an instance that
\* its own connect/disconnect calls left connected is still connected (its
\* catalog operations have a live connection), whatever the other instance
\* of the engine did.
C5_InstanceOwnsConnection ==
    \A x \in Instances : connectedBy[x] => StoredIsLive

\* C6: connect either completes with a live connection stored, or fails
\* with a ConnectionError whose cause is the error the driver raised; it
\* fails in no other way.
C6_ConnectOutcome ==
    lastOp.op = "connect" =>
        \/ /\ lastOp.outcome = "ok"
           /\ StoredIsLive
        \/ /\ lastOp.outcome = "throw"
           /\ lastOp.errKind = "ConnectionError"
           /\ lastOp.raised \in DriverErrors
           /\ lastOp.cause = lastOp.raised

\* A connect that failed while an earlier connection was stored.
C6_Witness ==
    /\ lastOp.op = "connect"
    /\ lastOp.outcome = "throw"
    /\ lastOp.storedBefore # 0
    /\ lastOp.cause \in DriverErrors

C8_TestConnection ==
    lastOp.op = "test" =>
        /\ lastOp.outcome = "ok"
        /\ lastOp.ret = (lastOp.env.opened /\ lastOp.env.queried /\ lastOp.env.closed)
        /\ stored = lastOp.storedBefore
        /\ stored # 0 => handles[stored].state = lastOp.stateBefore

\* A test that failed after its connection had opened, with a live main
\* connection stored.
C8_Witness ==
    /\ lastOp.op = "test"
    /\ lastOp.ret = FALSE
    /\ lastOp.env.opened
    /\ lastOp.stateBefore = "live"
    /\ StoredIsLive

----------------------------------------------------------------------------
(* Claims about the type mappers                                           *)

Mapped == mapPc = "mapped"

\* C9. For all three type mappers and every SourceColumn: if the mapped
\* SnowflakeColumn has isIdentity true, its defaultValue is null, whatever
\* raw default expression the source column carried.
C9_IdentityHasNoDefault ==
    Mapped /\ sfColumn.isIdentity => sfColumn.defaultValue = None

\* An identity column that carries a raw default which the mapper would
\* otherwise translate (it is not a sequence default) comes out without one.
C9_Witness ==
    /\ Mapped
    /\ srcColumn.isIdentity
    /\ TruthyStr(srcColumn.columnDefault)
    /\ ~HasNextval(Val(srcColumn.columnDefault))
    /\ sfColumn.isIdentity
    /\ sfColumn.defaultValue = None

\* The type keywords each mapper knows: the keys of its SIMPLE_TYPE_MAP and
\* the names its mapType tests for.
PgKeywords ==
    DOMAIN PgSimpleTypeMap \cup
    {"numeric", "varchar", "character varying", "bpchar", "char", "character"}
MysqlKeywords ==
    DOMAIN MysqlSimpleTypeMap \cup
    {"tinyint", "enum", "set", "decimal", "numeric", "varchar", "char"}
MssqlKeywords ==
    DOMAIN MssqlSimpleTypeMap \cup
    {"decimal", "numeric", "varchar", "nvarchar", "char", "nchar", "binary", "varbinary"}

\* The column's type is none the engine's mapper knows (PostgreSQL array
\* types, udtName '_...', are known by their prefix).
UnknownType(e, col) ==
    CASE e = "postgresql" ->
            /\ Str(col.udtName) \notin PgKeywords
            /\ Str(col.dataType) \notin PgKeywords
            /\ ~StartsWith(col.udtName, <<"_">>)
      [] e = "mysql" -> Str(ToLowerCase(col.dataType)) \notin MysqlKeywords
      [] OTHER -> Str(ToLowerCase(col.dataType)) \notin MssqlKeywords

\* The comment names the source type: it is one of the mappers' lead texts
\* followed by the udtName or dataType, and possibly the dataType in
\* parentheses.
CommentLeads ==
    {"Unmapped PostgreSQL type: ", "PostgreSQL user-defined type: ",
     "Unmapped MySQL type: ", "Unmapped MSSQL type: "}
NamesType(comment, col) ==
    LET dt == Str(ToLowerCase(col.dataType))
        names == {Str(col.udtName), Str(col.dataType),
                  Str(ToLowerCase(col.udtName)), dt}
    IN  \E lead \in CommentLeads, n \in names,
           tail \in {"", " (" \o dt \o ")", " (" \o Str(col.dataType) \o ")"} :
            comment = lead \o n \o tail

\* C10. Mapper totality: for each engine and every dataType / udtName that
\* is not a type keyword the engine's mapper knows, the mapped column has
\* the unparameterized type VARCHAR and a non-null comment that names the
\* unmapped source type.
C10_UnknownTypeFallsBackToVarchar ==
    Mapped /\ UnknownType(mapEngine, srcColumn) =>
        /\ sfColumn.type = "VARCHAR"
        /\ IsSome(sfColumn.comment)
        /\ NamesType(Val(sfColumn.comment), srcColumn)

\* The decimal text of the precisions, scales and lengths the columns carry.
DecimalText == (0 :> "0") @@ (2 :> "2") @@ (3 :> "3") @@ (10 :> "10") @@ (100 :> "100")

\* The column is of the numeric / decimal family for its engine's mapper.
IsNumericColumn(e, col) ==
    IF e = "postgresql"
    THEN /\ ~StartsWith(col.udtName, <<"_">>)
         /\ (Str(col.udtName) = "numeric" \/ Str(col.dataType) = "numeric")
    ELSE Str(ToLowerCase(col.dataType)) \in {"decimal", "numeric"}

DefaultNumber(e) ==
    CASE e = "postgresql" -> "NUMBER(38,0)"
      [] e = "mysql" -> "NUMBER(10,0)"
      [] OTHER -> "NUMBER(18,0)"

\* C11. For every engine, a numeric / decimal column with precision P and
\* scale S maps to exactly NUMBER(P,S); with only a precision to NUMBER(P);
\* with neither to the engine default NUMBER(38,0) (PostgreSQL),
\* NUMBER(10,0) (MySQL), NUMBER(18,0) (SQL Server).
C11_NumericPrecision ==
    Mapped /\ IsNumericColumn(mapEngine, srcColumn) =>
        LET p == srcColumn.numericPrecision
            sc == srcColumn.numericScale
        IN  /\ IsSome(p) /\ IsSome(sc) =>
                sfColumn.type = "NUMBER(" \o DecimalText[Val(p)] \o "," \o
                                DecimalText[Val(sc)] \o ")"
            /\ IsSome(p) /\ ~IsSome(sc) =>
                sfColumn.type = "NUMBER(" \o DecimalText[Val(p)] \o ")"
            /\ ~IsSome(p) /\ ~IsSome(sc) => sfColumn.type = DefaultNumber(mapEngine)

\* The column is of the variable-length character family / of the binary
\* family with a length, for its engine's mapper.
IsVarcharColumn(e, col) ==
    CASE e = "postgresql" ->
            /\ ~StartsWith(col.udtName, <<"_">>)
            /\ ~IsNumericColumn(e, col)
            /\ (Str(col.udtName) = "varchar" \/ Str(col.dataType) = "character varying")
      [] e = "mysql" -> Str(ToLowerCase(col.dataType)) = "varchar"
      [] OTHER -> Str(ToLowerCase(col.dataType)) \in {"varchar", "nvarchar"}
IsBinaryColumn(e, col) ==
    e = "mssql" /\ Str(ToLowerCase(col.dataType)) \in {"binary", "varbinary"}

NonPositiveLengthTypes ==
    {"VARCHAR(-1)", "VARCHAR(0)", "CHAR(-1)", "CHAR(0)", "BINARY(-1)", "BINARY(0)"}

\* C12. A character or binary column whose characterMaximumLength is the
\* unbounded sentinel -1 maps to the unparameterized type (VARCHAR or
\* BINARY), and no mapper renders a type with a zero or negative length.
C12_UnboundedLength ==
    Mapped =>
        /\ srcColumn.characterMaximumLength = Some(-1) =>
                /\ IsVarcharColumn(mapEngine, srcColumn) => sfColumn.type = "VARCHAR"
                /\ IsBinaryColumn(mapEngine, srcColumn) => sfColumn.type = "BINARY"
        /\ sfColumn.type \notin NonPositiveLengthTypes

\* C13. mapMysqlColumn maps a tinyint column to BOOLEAN when its udtName is
\* 'tinyint(1)' and to SMALLINT for every other declared width, whatever
\* the column's other fields are.
C13_Tinyint1IsBoolean ==
    Mapped /\ mapEngine = "mysql" /\ Str(ToLowerCase(srcColumn.dataType)) = "tinyint" =>
        sfColumn.type = (IF Str(srcColumn.udtName) = "tinyint(1)" THEN "BOOLEAN"
                         ELSE "SMALLINT")

\* The integer pairs the identityGeneration texts 's,i' of the columns
\* stand for.
IdentityPairs ==
    ("1,1" :> <<1, 1>>) @@ ("100,5" :> <<100, 5>>) @@ ("-5,-1" :> <<-5, -1>>) @@
    ("0,0" :> <<0, 0>>) @@ ("0,1" :> <<0, 1>>)

\* C14. For a SQL Server identity column whose identityGeneration is 's,i'
\* with integers s and i, mapMssqlColumn returns identitySeed = s and
\* identityIncrement = i; it falls back to 1 / 1 only when the field is
\* absent or cannot be parsed.
C14_IdentitySeedIncrement ==
    Mapped /\ mapEngine = "mssql" /\ srcColumn.isIdentity =>
        LET g == srcColumn.identityGeneration
        IN  IF IsSome(g) /\ Str(Val(g)) \in DOMAIN IdentityPairs
            THEN /\ sfColumn.identitySeed = IdentityPairs[Str(Val(g))][1]
                 /\ sfColumn.identityIncrement = IdentityPairs[Str(Val(g))][2]
            ELSE /\ sfColumn.identitySeed = 1
                 /\ sfColumn.identityIncrement = 1

----------------------------------------------------------------------------
(* Claims about stored passwords                                           *)

PasswordRead == cryptPc = "read"

\* C15. Reading a stored password never yields a wrong plaintext:
\* decrypting with a key other than the encrypting key, or a payload whose
\* ciphertext was altered, fails with an EncryptionError; and a stored
\* value that is not an encrypted payload is reported with an error other
\* than EncryptionError, for mapping files and for saved connections.
C15_StoredPasswordRead ==
    PasswordRead =>
        /\ readResult.ok => readResult.value = pwPlain
        /\ IsEncryptedPayload(storedPassword) /\
           (readKey # pwKey \/ storedPassword.ciphertext.plain # pwPlain) =>
               ~readResult.ok /\ readResult.error = "EncryptionError"
        /\ ~IsEncryptedPayload(storedPassword) =>
               ~readResult.ok /\ readResult.error # "EncryptionError"

----------------------------------------------------------------------------
(* Claims about the map operation and the files it writes                  *)

\* The objects that were persisted: what the files hold now and what
\* saveMappingFile has written.
PersistedObjects ==
    {mappingFiles[n] : n \in {m \in MappingNames : Readable(mappingFiles[m])}}
    \cup {connectionFiles[n] : n \in {c \in ConnectionNames : Readable(connectionFiles[c])}}
    \cup Range(written)

\* C16: every mapping file written by the map operation and every connection
\* file written by saveConnection holds the password as an encrypted payload
\* (encrypted true, with iv, tag and ciphertext) that decrypts with the stored
\* key, and no persisted field holds a plaintext password.
C16_PasswordStoredEncrypted ==
    \A file \in PersistedObjects :
        /\ IsEncryptedPayload(file.password)
        /\ file.password.text = NULL
        /\ Decrypt(file.password, keyFile).ok
        /\ Decrypt(file.password, keyFile).value \in Passwords
        /\ \A p \in Passwords :
            /\ file.name # p
            /\ file.engine # p
            /\ file.database # p
            /\ file.instanceName # p
            /\ file.trustServerCertificate # p

C16_Witness ==
    /\ \E n \in MappingNames : Readable(mappingFiles[n])
    /\ \E n \in ConnectionNames : Readable(connectionFiles[n])

\* The conditions under which runMap reaches saveMappingFile; every schema
\* in needIntrospection has been introspected.
MayWrite(needIntrospection) ==
    /\ rmPc = "save"
    /\ rmRun.connected
    /\ needIntrospection # {}
    /\ needIntrospection \subseteq rmRun.introspected
    /\ rmRun.encrypted
    /\ rmRun.writes = 0
    /\ rmRun.failedAt = NULL
    /\ rmRun.aborted = NULL

FailedBeforeSave ==
    \/ rmRun.failedAt \in {"schemas", "tables", "introspect", "prompt", "encrypt"}
    \/ rmRun.aborted # NULL

\* C17 as stated: a run of the map operation writes a mapping file at most
\* once, and only after connect succeeded and every selected schema was
\* introspected; a run that failed at connect or later, or in which nothing
\* was selected, writes none.
C17_WriteOnlyAfterAllSelectedSchemas ==
    /\ [](rmRun.writes <= 1 /\ (FailedBeforeSave => rmRun.writes = 0))
    /\ [][(mappingFiles' # mappingFiles \/ written' # written) => MayWrite(rmSchemas)]_vars

\* C17, amended: a run of the map operation writes a mapping file at most
\* once, and only after connect succeeded, every schema with a selected table
\* was introspected and the password was encrypted; a run that failed at
\* connect or later, or in which nothing was selected, writes none.
C17_WriteOnlyAfterIntrospection ==
    /\ [](rmRun.writes <= 1 /\ (FailedBeforeSave => rmRun.writes = 0))
    /\ [][(mappingFiles' # mappingFiles \/ written' # written) => MayWrite(rmSelected)]_vars

C17_Witness ==
    /\ rmPc = "finally"
    /\ rmRun.writes = 1
    /\ rmSchemas = SchemaChoices
    /\ rmRun.introspected # rmSchemas
    /\ Readable(mappingFiles[rmName])

\* C18: a mapping file is never changed once written: every mapping object
\* saveMappingFile has written is still the content of its file.
C18_MappingFileNeverMutated ==
    \A k \in 1..Len(written) : mappingFiles[written[k].name] = written[k]

ConfigsBuilt == {lastBuilt.config, rmConfig}

\* C19: every SourceConnectionConfig built for postgresql or mysql, from
\* prompts, from a saved connection or from a mapping file, has neither an
\* instanceName nor a trustServerCertificate field.
C19_MssqlFieldsOnlyForMssql ==
    \A config \in ConfigsBuilt :
        config.engine \in {"postgresql", "mysql"} =>
            /\ config.instanceName = NULL
            /\ config.trustServerCertificate = "absent"

C19_Witness ==
    /\ rmPc = "connect"
    /\ lastBuilt.builder = "savedConnection"
    /\ lastBuilt.config = rmConfig
    /\ rmConfig.engine \in {"postgresql", "mysql"}
    /\ \E n \in ConnectionNames :
        /\ Readable(connectionFiles[n])
        /\ connectionFiles[n].engine = "mssql"
        /\ connectionFiles[n].instanceName # NULL
        /\ connectionFiles[n].trustServerCertificate # "absent"

----------------------------------------------------------------------------
(* Claims about getForeignKeys                                             *)

\* The rows of one constraint, in arrival order.
RowsOf(rows, name) ==
    LET Named(row) == row.constraintName = name
    IN  SelectSeq(rows, Named)

\* Where a constraint name appears first among the rows.
FirstRow(rows, name) ==
    CHOOSE k \in 1..Len(rows) :
        /\ rows[k].constraintName = name
        /\ \A j \in 1..(k - 1) : rows[j].constraintName # name

\* C20: for any sequence of foreign-key rows getForeignKeys returns exactly
\* one foreign key per distinct constraint name, in order of first
\* appearance, whose columns and referencedColumns have equal length and hold,
\* pairwise and in arrival order, the columnName and referencedColumn of
\* exactly the rows with that constraint name.
C20_ForeignKeysGroupedInArrivalOrder ==
    fkPc = "returned" =>
        /\ {fkResult[k].constraintName : k \in 1..Len(fkResult)}
               = {fkRows[k].constraintName : k \in 1..Len(fkRows)}
        /\ \A j, k \in 1..Len(fkResult) :
            j < k => /\ fkResult[j].constraintName # fkResult[k].constraintName
                     /\ FirstRow(fkRows, fkResult[j].constraintName)
                            < FirstRow(fkRows, fkResult[k].constraintName)
        /\ \A k \in 1..Len(fkResult) :
            LET fk == fkResult[k]
                its == RowsOf(fkRows, fk.constraintName)
            IN  /\ Len(fk.columns) = Len(fk.referencedColumns)
                /\ Len(fk.columns) = Len(its)
                /\ \A n \in 1..Len(its) :
                    /\ fk.columns[n] = its[n].columnName
                    /\ fk.referencedColumns[n] = its[n].referencedColumn

C20_Witness ==
    /\ fkPc = "returned"
    /\ Len(fkRows) = 3
    /\ fkRows[1] = FkRow("fk2", "b", "y")
    /\ fkRows[2] = FkRow("fk1", "a", "x")
    /\ fkRows[3] = FkRow("fk2", "a", "x")
    /\ Len(fkResult) = 2
    /\ fkResult[1].columns = <<"b", "a">>

----------------------------------------------------------------------------
(* Further claims about the mappers and the map operation                  *)

BooleanLiterals == {Some("TRUE"), Some("FALSE")}

\* C30. For every MySQL column the mapped defaultValue is the boolean literal
\* TRUE or FALSE only if the mapped type of the column is BOOLEAN.
C30_BooleanDefaultOnlyForBoolean ==
    Mapped /\ mapEngine = "mysql" /\ sfColumn.defaultValue \in BooleanLiterals =>
        sfColumn.type = "BOOLEAN"

\* C24. In the map flow the config built from a saved connection has the
\* engine the connection was saved with.
C24_SavedConnectionEngineKept ==
    rmPc = "connect" /\ lastBuilt.builder = "savedConnection" =>
        \A n \in ConnectionNames :
            Readable(connectionFiles[n]) => rmConfig.engine = connectionFiles[n].engine

\* C28. A run of runMap ends through the finally block, where
\* adapter.disconnect is called once, exactly when adapter.connect had
\* succeeded in that run: normal completion, an early abort and every error
\* after connect pass through it, and a run whose connect failed, or that
\* ended before connect, does not.
C28_DisconnectExactlyWhenConnected ==
    /\ [](rmPc = "finally" => rmRun.connected)
    /\ [][rmPc # "idle" /\ rmPc' = "idle" => (rmRun.connected <=> rmPc = "finally")]_vars

C28_Witness ==
    /\ rmPc = "finally"
    /\ rmRun.connected
    /\ rmRun.aborted = "noTablesSelected"

----------------------------------------------------------------------------
(* Further claims about connection handling                                *)

\* C25. A connect that fails leaves the adapter's stored connection as it
\* was before the call; after a failed first connect nothing is stored, so
\* the catalog operations fail with 'Not connected' and disconnect is a
\* no-op.
C25_FailedConnectKeepsStored ==
    lastOp.op = "connect" /\ lastOp.outcome = "throw" =>
        /\ stored = lastOp.storedBefore
        /\ lastOp.storedBefore = 0 => stored = 0

\* C26. After a disconnect that returned, no connection that connect opened
\* is still open: a second connect before the disconnect does not leave the
\* first connection open and unreachable.
C26_DisconnectClosesEveryConnection ==
    lastOp.op = "disconnect" /\ lastOp.outcome = "ok" =>
        \A h \in 1..Len(handles) : handles[h].kind = "main" => handles[h].state # "live"

\* C27. Every connection or pool testConnection opened is closed when
\* testConnection returns, on the success path and on every failure path.
C27_TestConnectionClosesWhatItOpened ==
    lastOp.op = "test" /\ lastOp.env.opened =>
        /\ handles[Len(handles)].kind = "test"
        /\ handles[Len(handles)].state = "closed"

----------------------------------------------------------------------------
(* Claims about the generate-ddl operation                                 *)

\* C23. runGenerateDDL writes the output file only after the mapping was
\* loaded and generateDDL returned, and what it writes is the generated SQL;
\* when the load or the generation fails, and in preview mode, no file is
\* written.
C23_DdlWrittenOnlyAfterGenerate ==
    [][ddlFiles' # ddlFiles =>
          /\ ddlPc = "output"
          /\ ddlMapping # NULL
          /\ ddlResult = DdlSql(ddlMapping)
          /\ ~ddlOptions.preview
          /\ ddlOutcome = NULL
          /\ \E f \in DdlOutputs :
                /\ ddlFiles'[f] = ddlResult
                /\ \A g \in DdlOutputs \ {f} : ddlFiles'[g] = ddlFiles[g]]_vars

C23_Witness ==
    /\ ddlPc = "done"
    /\ ddlOutcome = "written"
    /\ ddlOptions.output = NULL
    /\ ddlFiles["m2-snowflake.sql"] = DdlSql("m2")

----------------------------------------------------------------------------
(* Claims about introspection                                              *)

\* C21. Whatever the completion order of the catalog fetches,
\* introspectSchema returns only after the four fetches of every table have
\* resolved, with one metadata object per requested table in the order of
\* tableNames, each holding the results of that table's own fetches; if a
\* fetch has failed the call does not return, and a call that fails returns
\* no metadata.
C21_IntrospectionCompleteAndOrdered ==
    /\ introPc = "returned" =>
          /\ \A n \in 1..Len(introTables), k \in FetchKinds : fetchStatus[n][k] = "resolved"
          /\ Len(introResult) = Len(introTables)
          /\ \A n \in 1..Len(introTables) :
                /\ introResult[n].tableName = introTables[n]
                /\ introResult[n].columns = FetchValue(introTables[n], 1)
                /\ introResult[n].primaryKey = FetchValue(introTables[n], 2)
                /\ introResult[n].foreignKeys = FetchValue(introTables[n], 3)
                /\ introResult[n].indexes = FetchValue(introTables[n], 4)
    /\ introPc = "thrown" => introResult = <<>>
    /\ (\E n \in 1..Len(introTables), k \in FetchKinds : fetchStatus[n][k] = "rejected") =>
          introPc # "returned"

C21_Witness ==
    /\ introPc = "returned"
    /\ introTables = <<"t2", "t1">>
    /\ introResult[1].tableName = "t2"
    /\ introResult[2].sequences = {"seq1"}

----------------------------------------------------------------------------
(* CSV output of a table export                                            *)

\* The columns of an exported table, and the value written in each cell of
\* a data row.
CsvColumns == <<"id", "name">>
CsvDataLine == [c \in 1..Len(CsvColumns) |-> "v"]

\* PostgreSQL and MySQL: DuckDB's COPY (SELECT * FROM t) TO file
\* (FORMAT CSV, HEADER): the header line, then one line per row.
DuckDbCsv(columns, rows) == <<columns>> \o [k \in 1..rows |-> CsvDataLine]

\* SQL Server: the header is built from the keys of the first row of the
\* recordset; an empty recordset writes the empty string.
MssqlCsv(rows) ==
    IF rows > 0
    THEN <<CsvColumns>> \o [k \in 1..rows |-> CsvDataLine]
    ELSE <<>>

\* The lines of the CSV file a successful export of a table with `rows`
\* rows leaves on disk.
CsvFileOf(e, rows) == IF e = "mssql" THEN MssqlCsv(rows) ELSE DuckDbCsv(CsvColumns, rows)

\* C22. Every CSV file written by a successful table export, on every engine
\* and also for a table with zero rows, begins with a header line naming the
\* table's columns.
C22_EveryCsvFileHasHeader ==
    format = "csv" =>
       \A k \in 1..Len(outcomes) :
          outcomes[k].ok =>
             LET file == CsvFileOf(engine, outcomes[k].rows)
             IN  /\ Len(file) >= 1
                 /\ file[1] = CsvColumns

----------------------------------------------------------------------------
(* Claims about the REPL                                                   *)

\* C29. The REPL runs at most one command at a time: no line is dispatched
\* while the handler of an earlier command is still awaiting, and every
\* query of a command runs on the connection that command opened.
C29_OneCommandAtATime ==
    /\ Cardinality({h \in 1..Len(handlers) : Running(h)}) <= 1
    /\ \A u \in uses : u[1] = u[2]

====
